---- MODULE Spec2Model ----
(***************************************************************************)
(* Model of the DAT recipe/pipeline association store                      *)
(* (dat/vistrail_data.py: VistrailData).                                   *)
(*                                                                         *)
(* Text is a sequence of one-character strings, a dict is a function whose *)
(* DOMAIN is the set of its keys, an optional dict is Some(d) or NoneVal,  *)
(* a Variable object is an integer identity (NoneObj is Python's None)     *)
(* whose mutable name attribute lives in varobjs.                          *)
(***************************************************************************)
EXTENDS Integers, Sequences, FiniteSets, TLC

\* ------------------------------------------------------------------ bounds
\* Number of Variable objects alive at the same time.
MaxVarObjs == 2
\* Pipeline versions callers commit (1..MaxVersion).
MaxVersion == 2
\* Spreadsheet cells (1..MaxCell).
MaxCell == 2

\* ------------------------------------------------------------- vocabulary
a == <<"a">>
b == <<"b">>
p == <<"p">>
x == <<"x">>
y == <<"y">>
PortI == <<"i">>

\* Variable names the callers use.
Names == {a, b}
\* Plot parameters (input ports of the plot).
Params == {x}
Versions == 1..MaxVersion
Cells == 1..MaxCell
ObjIds == 1..MaxVarObjs
\* Python's None where a Variable object is expected.
NoneObj == 0

NoneVal == [some |-> FALSE]
Some(v) == [some |-> TRUE, val |-> v]

EmptyDict == [k \in {} |-> 0]
\* d[k] = v, keeping the other keys of the dict d
DictSet(d, k, v) == [j \in DOMAIN d \cup {k} |-> IF j = k THEN v ELSE d[j]]
\* del d[k]
DictDel(d, k) == [j \in DOMAIN d \ {k} |-> d[j]]
\* d.get(k, default)
DictGet(d, k, default) == IF k \in DOMAIN d THEN d[k] ELSE default

\* ------------------------------------------------------------ text helpers
RECURSIVE Join(_, _)
\* sep.join(segs)
Join(segs, sep) ==
    IF segs = <<>> THEN <<>>
    ELSE IF Len(segs) = 1 THEN segs[1]
    ELSE segs[1] \o sep \o Join(Tail(segs), sep)

RECURSIVE SplitFrom(_, _, _)
\* the segments of text after a separator was seen, cur being the segment
\* collected so far
SplitFrom(text, sep, cur) ==
    IF text = <<>> THEN <<cur>>
    ELSE IF Head(text) = sep THEN <<cur>> \o SplitFrom(Tail(text), sep, <<>>)
    ELSE SplitFrom(Tail(text), sep, Append(cur, Head(text)))

\* text.split(sep) for a one-character sep: always at least one segment
Split(text, sep) == SplitFrom(text, sep, <<>>)

Digits == <<"0", "1", "2", "3", "4", "5", "6", "7", "8", "9">>
DigitChars == {Digits[i] : i \in 1..10}
DigitValue(c) == CHOOSE i \in 0..9 : Digits[i + 1] = c

RECURSIVE FormatNat(_)
FormatNat(n) == IF n < 10 THEN <<Digits[n + 1]>>
                ELSE FormatNat(n \div 10) \o <<Digits[(n % 10) + 1]>>
\* '%d' % n
FormatInt(n) == IF n < 0 THEN <<"-">> \o FormatNat(0 - n) ELSE FormatNat(n)

RECURSIVE DigitsValue(_, _)
DigitsValue(text, acc) ==
    IF text = <<>> THEN acc
    ELSE DigitsValue(Tail(text), acc * 10 + DigitValue(Head(text)))

AllDigits(text) == text # <<>> /\ \A i \in 1..Len(text) : text[i] \in DigitChars
\* int(text) succeeds: an optional sign followed by decimal digits
IsInt(text) ==
    IF text # <<>> /\ Head(text) \in {"-", "+"} THEN AllDigits(Tail(text))
    ELSE AllDigits(text)
\* int(text), for a text on which it does not raise ValueError
ParseInt(text) ==
    IF Head(text) = "-" THEN 0 - DigitsValue(Tail(text), 0)
    ELSE IF Head(text) = "+" THEN DigitsValue(Tail(text), 0)
    ELSE DigitsValue(text, 0)

\* ----------------------------------------------------------- dict iteration
\* The keys of a dict in iteration order (CPython's order is fixed for a
\* given dict; the model takes one fixed order over the keys).
RECURSIVE KeyOrder(_)
KeyOrder(keys) ==
    IF keys = {} THEN <<>>
    ELSE LET k == CHOOSE k1 \in keys : TRUE
         IN <<k>> \o KeyOrder(keys \ {k})

\* -------------------------------------------------------- annotation codec
RecipeKey == "dat-recipe"
PortmapKey == "dat-ports"
VarmapKey == "dat-vars"
Keys == {RecipeKey, PortmapKey, VarmapKey}

\* The plots GlobalManager.get_plot knows; any other name raises KeyError.
Plots == {p}

\* DATRecipe(plot, variables)
DATRecipe(plot, variables) == [plot |-> plot, variables |-> variables]

\* PipelineInformation(version, recipe, port_map=None, var_map=None); varmap
\* is the attribute that only VistrailData.__init__ sets.
PipelineInformation(version, recipe, port_map, var_map) ==
    [version |-> version, recipe |-> recipe,
     port_map |-> port_map, var_map |-> var_map, varmap |-> NoneVal]

\* any(v.name == varname for v in recipe.variables.itervalues()) walks the
\* values in iteration order: "match" at the first variable of that name,
\* "raise" (AttributeError) at a None met before any match, else "no".
RECURSIVE AnyNamed(_, _, _, _)
AnyNamed(objs, variables, order, varname) ==
    IF order = <<>> THEN "no"
    ELSE LET v == variables[Head(order)]
         IN IF v = NoneObj THEN "raise"
            ELSE IF objs[v] = varname THEN "match"
            ELSE AnyNamed(objs, variables, Tail(order), varname)

References(objs, recipe, varname) ==
    AnyNamed(objs, recipe.variables, KeyOrder(DOMAIN recipe.variables), varname)

RECURSIVE RecipeTail(_, _, _)
\* the ';param=varname' parts of _build_annotation_recipe
RecipeTail(objs, variables, order) ==
    IF order = <<>> THEN <<>>
    ELSE <<";">> \o Head(order) \o <<"=">> \o objs[variables[Head(order)]]
         \o RecipeTail(objs, variables, Tail(order))

\* an encoder that writes the plot name only
build_annotation_recipe_plot_only(objs, recipe) ==
    [raised |-> "None", val |-> recipe.plot]

\* _build_annotation_recipe(recipe); variable.name raises AttributeError
\* when a parameter is bound to None.
build_annotation_recipe(objs, recipe) ==
    IF \E k \in DOMAIN recipe.variables : recipe.variables[k] = NoneObj
    THEN [raised |-> "AttributeError", val |-> <<>>]
    ELSE [raised |-> "None",
          val |-> recipe.plot \o RecipeTail(objs, recipe.variables,
                                            KeyOrder(DOMAIN recipe.variables))]

RECURSIVE ReadAssignments(_, _, _)
\* the loop of _read_annotation_recipe over value[1:]; NoneVal stands for
\* the ValueError of the tuple unpacking
ReadAssignments(registry, assignments, variables) ==
    IF assignments = <<>> THEN Some(variables)
    ELSE LET parts == Split(Head(assignments), "=")
         IN IF Len(parts) # 2 THEN NoneVal
            ELSE ReadAssignments(registry, Tail(assignments),
                     DictSet(variables, parts[1],
                             DictGet(registry, parts[2], NoneObj)))

\* the try block of _read_annotation_recipe: the exception it raises
\* ("None" when it returns) and the recipe it returns
ReadRecipeTry(registry, value) ==
    LET segs == Split(value, ";")
    IN IF segs[1] \notin Plots THEN [raised |-> "KeyError", val |-> NoneVal]
       ELSE LET vs == ReadAssignments(registry, Tail(segs), EmptyDict)
            IN IF vs.some
               THEN [raised |-> "None", val |-> Some(DATRecipe(segs[1], vs.val))]
               ELSE [raised |-> "ValueError", val |-> NoneVal]

\* a handler that lets ValueError through
ExceptKeyError(r) ==
    IF r.raised = "KeyError" THEN [raised |-> "None", val |-> NoneVal]
    ELSE r

\* except (KeyError, ValueError): return None
ExceptKeyErrorValueError(r) ==
    IF r.raised \in {"KeyError", "ValueError"}
    THEN [raised |-> "None", val |-> NoneVal]
    ELSE r

\* a call of _read_annotation_recipe: the exception that escapes it and its
\* return value
ReadRecipeCall(registry, value) ==
    ExceptKeyErrorValueError(ReadRecipeTry(registry, value))

\* _read_annotation_recipe(vistraildata, value)
read_annotation_recipe(registry, value) == ReadRecipeCall(registry, value).val

RECURSIVE PortList(_)
\* ','.join('%d:%s' % (mod_id, portname) for mod_id, portname in portlist)
PortList(portlist) ==
    IF portlist = <<>> THEN <<>>
    ELSE FormatInt(portlist[1][1]) \o <<":">> \o portlist[1][2]
         \o (IF Len(portlist) = 1 THEN <<>>
             ELSE <<",">> \o PortList(Tail(portlist)))

RECURSIVE PortmapSegments(_, _)
PortmapSegments(port_map, order) ==
    IF order = <<>> THEN <<>>
    ELSE <<Head(order) \o <<"=">> \o PortList(port_map[Head(order)])>>
         \o PortmapSegments(port_map, Tail(order))

\* _build_annotation_portmap(port_map)
build_annotation_portmap(port_map) ==
    Join(PortmapSegments(port_map, KeyOrder(DOMAIN port_map)), <<";">>)

RECURSIVE ReadPorts_skipping(_, _)
\* an inner loop that leaves out the elements it cannot read
ReadPorts_skipping(ports, portlist) ==
    IF ports = <<>> THEN Some(portlist)
    ELSE LET port_ == Split(Head(ports), ":")
         IN IF Len(port_) # 2 \/ ~IsInt(port_[1])
            THEN ReadPorts_skipping(Tail(ports), portlist)
            ELSE ReadPorts_skipping(Tail(ports),
                     Append(portlist, <<ParseInt(port_[1]), port_[2]>>))

RECURSIVE ReadPorts(_, _)
\* the inner loop of _read_annotation_portmap
ReadPorts(ports, portlist) ==
    IF ports = <<>> THEN Some(portlist)
    ELSE LET port_ == Split(Head(ports), ":")
         IN IF Len(port_) # 2 THEN NoneVal
            ELSE IF ~IsInt(port_[1]) THEN NoneVal
            ELSE ReadPorts(Tail(ports),
                           Append(portlist, <<ParseInt(port_[1]), port_[2]>>))

RECURSIVE ReadPortMappings(_, _)
ReadPortMappings(dv, port_map) ==
    IF dv = <<>> THEN Some(port_map)
    ELSE LET parts == Split(Head(dv), "=")
         IN IF Len(parts) # 2 THEN NoneVal
            ELSE IF parts[2] = <<>>
            THEN ReadPortMappings(Tail(dv), DictSet(port_map, parts[1], <<>>))
            ELSE LET pl == ReadPorts(Split(parts[2], ","), <<>>)
                 IN IF ~pl.some THEN NoneVal
                    ELSE ReadPortMappings(Tail(dv),
                                          DictSet(port_map, parts[1], pl.val))

\* _read_annotation_portmap(value)
read_annotation_portmap(value) == ReadPortMappings(Split(value, ";"), EmptyDict)

RECURSIVE ConnList(_)
\* ','.join('%d' % conn_id for conn_id in conn_list)
ConnList(conn_list) ==
    IF conn_list = <<>> THEN <<>>
    ELSE FormatInt(conn_list[1])
         \o (IF Len(conn_list) = 1 THEN <<>>
             ELSE <<",">> \o ConnList(Tail(conn_list)))

RECURSIVE VarmapSegments(_, _)
VarmapSegments(var_map, order) ==
    IF order = <<>> THEN <<>>
    ELSE <<Head(order) \o <<"=">> \o ConnList(var_map[Head(order)])>>
         \o VarmapSegments(var_map, Tail(order))

\* _build_annotation_varmap(var_map)
build_annotation_varmap(var_map) ==
    Join(VarmapSegments(var_map, KeyOrder(DOMAIN var_map)), <<";">>)

RECURSIVE ReadConns(_, _)
ReadConns(ports, conn_list) ==
    IF ports = <<>> THEN Some(conn_list)
    ELSE IF ~IsInt(Head(ports)) THEN NoneVal
    ELSE ReadConns(Tail(ports), Append(conn_list, ParseInt(Head(ports))))

RECURSIVE ReadVarMappings(_, _)
ReadVarMappings(dv, var_map) ==
    IF dv = <<>> THEN Some(var_map)
    ELSE LET parts == Split(Head(dv), "=")
         IN IF Len(parts) # 2 THEN NoneVal
            ELSE IF parts[2] = <<>>
            THEN ReadVarMappings(Tail(dv), DictSet(var_map, parts[1], <<>>))
            ELSE LET cl == ReadConns(Split(parts[2], ","), <<>>)
                 IN IF ~cl.some THEN NoneVal
                    ELSE ReadVarMappings(Tail(dv),
                                         DictSet(var_map, parts[1], cl.val))

\* _read_annotation_varmap(value)
read_annotation_varmap(value) == ReadVarMappings(Split(value, ";"), EmptyDict)

\* ------------------------------------------------------------------ state
\* The vistrail (host document): its action annotations, a dict
\* <<version, key>> -> text, and its tags, a dict tag text -> whether
\* Variable.read_type finds a type in the tagged pipeline.
VARIABLES annotations, tagmap
\* Whether VistrailData.__init__ has completed for the vistrail.
VARIABLE loaded
\* VistrailData._variables (name -> Variable object) and the name attribute
\* of the Variable objects (<<>> for an identity that is not in use).
VARIABLES variables, varobjs
\* VistrailData._version_to_pipeline, _cell_to_version, _cell_to_pipeline
VARIABLES version_to_pipeline, cell_to_version, cell_to_pipeline
\* The last call: its name and arguments, whether the call before it was the
\* same call and returned, the names registered and the versions known when
\* it started, the exception it raised ("None" when it returned), the
\* warnings and the notifications it emitted.
VARIABLE last
\* A call of one codec function on its own: the kind of the input ("text",
\* "recipe", "port_map" or "var_map"), the input, the function applied
\* ("none" before the call), the exception that escaped and the result.
VARIABLE codec
\* One DATCellContainer of the spreadsheet: whether its controller is the one
\* of the VistrailData (own), its _plot (None before a plot is dropped), its
\* _variables (parameter name -> Variable object), whether it shows a result
\* widget, the handler that ran last and the exception that escaped it.
VARIABLE container
\* The vistrails of the open controllers (controller -> its annotations and
\* tags), VistrailManager._vistrails (controller -> VistrailData),
\* VistrailManager._tabs (the controllers whose VistrailData registered a
\* spreadsheet tab) and VistrailManager._current_controller.
VARIABLES documents, vistrails, tabs, current_controller

storeVars == <<annotations, tagmap, loaded, variables, varobjs,
               version_to_pipeline, cell_to_version, cell_to_pipeline>>
managerVars == <<documents, vistrails, tabs, current_controller>>
vars == <<annotations, tagmap, loaded, variables, varobjs,
          version_to_pipeline, cell_to_version, cell_to_pipeline, last,
          codec, container, documents, vistrails, tabs, current_controller>>

\* No codec call is under examination.
CodecIdle == [kind |-> "none", input |-> <<>>, op |-> "none",
              raised |-> "None", result |-> NoneVal]
\* DATCellContainer.__init__: no plot, no parameter
NewContainer(own) ==
    [own |-> own, plot |-> NoneVal, variables |-> EmptyDict,
     widget |-> FALSE, op |-> "none", raised |-> "None"]
\* No cell container is under examination.
ContainerIdle == NewContainer(TRUE)
\* VistrailManager.__init__
NoneController == 0
ManagerInit ==
    /\ vistrails = EmptyDict
    /\ tabs = {}
    /\ current_controller = NoneController

\* The state an operation works on, as one record: the fields of the
\* VistrailData and its vistrail, the exception raised, the warnings and
\* notifications emitted so far, for each notification what its handlers
\* see of the store when it is delivered (seen), and the handler a caller
\* has registered for the time of the call (subscriber, None for none).
Cur == [annotations |-> annotations, variables |-> variables,
        varobjs |-> varobjs, version_to_pipeline |-> version_to_pipeline,
        cell_to_version |-> cell_to_version,
        cell_to_pipeline |-> cell_to_pipeline,
        raised |-> "None", warnings |-> <<>>, notifications |-> <<>>,
        seen |-> <<>>, subscriber |-> NoneVal]

Raise(s, exc) == [s EXCEPT !.raised = exc]
\* warnings.warn(...)
Warn(s, w) == [s EXCEPT !.warnings = Append(@, w)]

\* What a handler reads from the VistrailData during a delivery.
Snapshot(s) ==
    [variables |-> s.variables, varobjs |-> s.varobjs,
     version_to_pipeline |-> s.version_to_pipeline,
     cell_to_version |-> s.cell_to_version,
     cell_to_pipeline |-> s.cell_to_pipeline]

\* The element of a set of one element: TheOne({F(v) : v \in {e}}) is F(e)
\* with e evaluated once.
TheOne(S) == CHOOSE v \in S : TRUE

\* The handlers registered for the notification run, inside the call that
\* sends it.
RECURSIVE Deliver(_, _, _)

\* get_vistrails_application().send_notification(name, controller, varname,
\* renamed_to/renamed_from=renamed)
send_notification(s, name, varname, renamed) ==
    TheOne({Deliver(sent, name, varname) :
               sent \in {[t EXCEPT
                             !.notifications =
                                 Append(@, [name |-> name, varname |-> varname,
                                            renamed |-> renamed]),
                             !.seen = Append(@, Snapshot(t))] : t \in {s}}})

\* vistrail.set_action_annotation(version, key, value); value None clears
set_action_annotation(s, version, key, value) ==
    [s EXCEPT !.annotations =
        IF value.some THEN DictSet(@, <<version, key>>, value.val)
        ELSE DictDel(@, <<version, key>>)]

\* Variable objects some dict of the store still refers to.
RecordObjs(rec) == {rec.recipe.variables[k] : k \in DOMAIN rec.recipe.variables}
LiveObjs(s) ==
    {s.variables[n] : n \in DOMAIN s.variables}
    \cup UNION {RecordObjs(s.version_to_pipeline[v]) :
                    v \in DOMAIN s.version_to_pipeline}
    \cup UNION {RecordObjs(s.cell_to_pipeline[c]) :
                    c \in DOMAIN s.cell_to_pipeline}
\* A Variable object nothing refers to any more is released.
Collect(s) == [i \in ObjIds |-> IF i \in LiveObjs(s) THEN s.varobjs[i] ELSE <<>>]
FreeObjs(s) == ObjIds \ LiveObjs(s)
\* The identity of a newly constructed Variable object.
NewObj(s) == CHOOSE i \in FreeObjs(s) : \A j \in FreeObjs(s) : i <= j

\* ------------------------------------------------------- Variable Registry
RECURSIVE RewriteRenamed(_, _, _)
\* the loop of _add_variable over _version_to_pipeline.itervalues()
RewriteRenamed(s, order, varname) ==
    IF order = <<>> THEN s
    ELSE LET pipeline == s.version_to_pipeline[Head(order)]
             hit == References(s.varobjs, pipeline.recipe, varname)
             enc == build_annotation_recipe(s.varobjs, pipeline.recipe)
         IN IF hit = "raise" THEN Raise(s, "AttributeError")
            ELSE IF hit = "no" THEN RewriteRenamed(s, Tail(order), varname)
            ELSE IF enc.raised # "None" THEN Raise(s, enc.raised)
            ELSE RewriteRenamed(
                     set_action_annotation(s, pipeline.version, RecipeKey,
                                           Some(enc.val)),
                     Tail(order), varname)

\* VistrailData._add_variable(varname, renamed_from)
add_variable(s, varname, renamed_from) ==
    LET s1 == IF renamed_from.some
              THEN RewriteRenamed(s, KeyOrder(DOMAIN s.version_to_pipeline),
                                  varname)
              ELSE s
    IN IF s1.raised # "None" THEN s1
       ELSE send_notification(s1, "dat_new_variable", varname, renamed_from)

\* new_variable without its check of the name: the name is registered again
new_variable_unchecked(s, varname) ==
    LET variable == IF FreeObjs(s) # {} THEN NewObj(s)
                    ELSE s.variables[varname]
        s1 == [s EXCEPT !.varobjs[variable] = varname,
                        !.variables = DictSet(@, varname, variable)]
    IN add_variable(s1, varname, NoneVal)

\* VistrailData.new_variable(varname, variable); perform_operations builds
\* the Variable object named varname
new_variable(s, varname) ==
    IF varname \in DOMAIN s.variables THEN Raise(s, "ValueError")
    ELSE LET variable == NewObj(s)
             s1 == [s EXCEPT !.varobjs[variable] = varname,
                             !.variables = DictSet(@, varname, variable)]
         IN add_variable(s1, varname, NoneVal)

RECURSIVE ClearVersions(_, _)
\* the loop of _remove_variable over to_remove
ClearVersions(s, to_remove) ==
    IF to_remove = <<>> THEN s
    ELSE LET version == Head(to_remove)
             s1 == [s EXCEPT !.version_to_pipeline = DictDel(@, version)]
             s2 == set_action_annotation(s1, version, RecipeKey, NoneVal)
             s3 == set_action_annotation(s2, version, PortmapKey, NoneVal)
             s4 == set_action_annotation(s3, version, VarmapKey, NoneVal)
         IN ClearVersions(s4, Tail(to_remove))

\* a _remove_variable that sends its notification after the cascade
remove_variable_notifies_last(s, varname, renamed_to) ==
    LET hit(v) == References(s.varobjs, s.version_to_pipeline[v].recipe,
                             varname)
        to_remove == {v \in DOMAIN s.version_to_pipeline : hit(v) = "match"}
        s2 == IF to_remove # {} THEN Warn(s, "variable_was_used") ELSE s
        s3 == ClearVersions(s2, KeyOrder(to_remove))
        cell_to_remove == {c \in DOMAIN s3.cell_to_version :
                               s3.cell_to_version[c] \in to_remove}
    IN IF renamed_to.some
       THEN send_notification(s, "dat_removed_variable", varname, renamed_to)
       ELSE IF \E v \in DOMAIN s.version_to_pipeline : hit(v) = "raise"
       THEN Raise(s, "AttributeError")
       ELSE send_notification(
                [s3 EXCEPT
                    !.cell_to_version =
                        [c \in DOMAIN @ \ cell_to_remove |-> @[c]],
                    !.cell_to_pipeline =
                        [c \in DOMAIN @ \ cell_to_remove |-> @[c]]],
                "dat_removed_variable", varname, renamed_to)

\* VistrailData._remove_variable(varname, renamed_to)
remove_variable_(s, varname, renamed_to) ==
    TheOne({
    LET hit(v) == References(s1.varobjs, s1.version_to_pipeline[v].recipe,
                             varname)
        to_remove == {v \in DOMAIN s1.version_to_pipeline : hit(v) = "match"}
        s2 == IF to_remove # {} THEN Warn(s1, "variable_was_used") ELSE s1
        s3 == ClearVersions(s2, KeyOrder(to_remove))
        cell_to_remove == {c \in DOMAIN s3.cell_to_version :
                               s3.cell_to_version[c] \in to_remove}
    IN IF s1.raised # "None" \/ renamed_to.some THEN s1
       ELSE IF \E v \in DOMAIN s1.version_to_pipeline : hit(v) = "raise"
       THEN Raise(s1, "AttributeError")
       ELSE [s3 EXCEPT
                !.cell_to_version = [c \in DOMAIN @ \ cell_to_remove |-> @[c]],
                !.cell_to_pipeline = [c \in DOMAIN @ \ cell_to_remove |-> @[c]]]
    : s1 \in {send_notification(s, "dat_removed_variable", varname,
                                renamed_to)}})

\* VistrailData.remove_variable(varname)
remove_variable(s, varname) ==
    LET s1 == remove_variable_(s, varname, NoneVal)
    IN IF s1.raised # "None" THEN s1
       ELSE IF varname \notin DOMAIN s1.variables THEN Raise(s1, "KeyError")
       ELSE [s1 EXCEPT !.variables = DictDel(@, varname)]

\* A subscriber [on, removes] handles dat_removed_variable for the variable
\* named on by calling remove_variable(removes); an exception of the
\* handler propagates into the sender.
Deliver(s, name, varname) ==
    IF /\ s.subscriber.some
       /\ name = "dat_removed_variable"
       /\ varname = s.subscriber.val.on
    THEN remove_variable(s, s.subscriber.val.removes)
    ELSE s

\* a rename that runs the removal cascade on the old name
rename_variable_cascading(s, old_varname, new_varname) ==
    LET s1 == remove_variable_(s, old_varname, NoneVal)
    IN IF s1.raised # "None" THEN s1
       ELSE IF old_varname \notin DOMAIN s1.variables
       THEN Raise(s1, "KeyError")
       ELSE LET variable == s1.variables[old_varname]
                s2 == [s1 EXCEPT
                          !.variables = DictSet(DictDel(@, old_varname),
                                                new_varname, variable),
                          !.varobjs[variable] = new_varname]
            IN add_variable(s2, new_varname, Some(old_varname))

\* VistrailData.rename_variable(old_varname, new_varname)
rename_variable(s, old_varname, new_varname) ==
    LET s1 == remove_variable_(s, old_varname, Some(new_varname))
    IN IF s1.raised # "None" THEN s1
       ELSE IF old_varname \notin DOMAIN s1.variables
       THEN Raise(s1, "KeyError")
       ELSE LET variable == s1.variables[old_varname]
                s2 == [s1 EXCEPT
                          !.variables = DictSet(DictDel(@, old_varname),
                                                new_varname, variable),
                          !.varobjs[variable] = new_varname]
            IN add_variable(s2, new_varname, Some(old_varname))

\* VistrailData.get_variable(varname)
get_variable(s, varname) == DictGet(s.variables, varname, NoneObj)

\* ---------------------------------------------------------- Pipeline Index
\* The (param, variable name) pairs of a recipe.
RecipePairs(objs, recipe) ==
    {<<k, IF recipe.variables[k] = NoneObj THEN NoneVal
          ELSE Some(objs[recipe.variables[k]])>> : k \in DOMAIN recipe.variables}
\* DATRecipe.__eq__: same plot and same (param, variable name) pairs
RecipeEq(objs, r1, r2) ==
    r1.plot = r2.plot /\ RecipePairs(objs, r1) = RecipePairs(objs, r2)
\* PipelineInformation.__eq__ (p == pipeline): the stored recipe does not
\* differ from the new one
PipelineEq(objs, p1, p2) ==
    p1.version = p2.version /\ RecipeEq(objs, p1.recipe, p2.recipe)

\* the three set_action_annotation calls that end created_pipeline
WriteAnnotations(s, pipeline) ==
    LET enc == build_annotation_recipe(s.varobjs, pipeline.recipe)
        s1 == set_action_annotation(s, pipeline.version, RecipeKey,
                                    Some(enc.val))
        s2 == set_action_annotation(s1, pipeline.version, PortmapKey,
                  Some(build_annotation_portmap(pipeline.port_map.val)))
    IN IF enc.raised # "None" THEN Raise(s, enc.raised)
       ELSE IF ~pipeline.port_map.some THEN Raise(s1, "AttributeError")
       ELSE IF ~pipeline.var_map.some THEN Raise(s2, "AttributeError")
       ELSE set_action_annotation(s2, pipeline.version, VarmapKey,
                Some(build_annotation_varmap(pipeline.var_map.val)))

\* created_pipeline without the early return on an equal record
created_pipeline_always_replaces(s, cellInfo, pipeline) ==
    LET known == pipeline.version \in DOMAIN s.version_to_pipeline
        s1 == IF known THEN Warn(s, "previously_known_version") ELSE s
        s2 == [s1 EXCEPT
                  !.cell_to_version = DictSet(@, cellInfo, pipeline.version),
                  !.version_to_pipeline = DictSet(@, pipeline.version, pipeline),
                  !.cell_to_pipeline = DictSet(@, cellInfo, pipeline)]
    IN WriteAnnotations(s2, pipeline)

\* created_pipeline that warns about a known version and keeps its record
created_pipeline_keeps_old(s, cellInfo, pipeline) ==
    LET known == pipeline.version \in DOMAIN s.version_to_pipeline
        s2 == [s EXCEPT
                  !.cell_to_version = DictSet(@, cellInfo, pipeline.version),
                  !.version_to_pipeline = DictSet(@, pipeline.version, pipeline),
                  !.cell_to_pipeline = DictSet(@, cellInfo, pipeline)]
    IN IF known /\ PipelineEq(s.varobjs,
                              s.version_to_pipeline[pipeline.version], pipeline)
       THEN s
       ELSE IF known THEN Warn(s, "previously_known_version")
       ELSE WriteAnnotations(s2, pipeline)

\* created_pipeline that also warns when the recipe of a version that is not
\* known is stored under another version
created_pipeline_warns_on_recipe(s, cellInfo, pipeline) ==
    LET known == pipeline.version \in DOMAIN s.version_to_pipeline
        elsewhere == \E v \in DOMAIN s.version_to_pipeline :
                        RecipeEq(s.varobjs, s.version_to_pipeline[v].recipe,
                                 pipeline.recipe)
        s1 == IF known THEN Warn(s, "previously_known_version")
              ELSE IF elsewhere THEN Warn(s, "previously_known_recipe")
              ELSE s
        s2 == [s1 EXCEPT
                  !.cell_to_version = DictSet(@, cellInfo, pipeline.version),
                  !.version_to_pipeline = DictSet(@, pipeline.version, pipeline),
                  !.cell_to_pipeline = DictSet(@, cellInfo, pipeline)]
    IN IF known /\ PipelineEq(s.varobjs,
                              s.version_to_pipeline[pipeline.version], pipeline)
       THEN s
       ELSE WriteAnnotations(s2, pipeline)

\* VistrailData.created_pipeline(cellInfo, pipeline)
created_pipeline(s, cellInfo, pipeline) ==
    LET known == pipeline.version \in DOMAIN s.version_to_pipeline
        s1 == IF known THEN Warn(s, "previously_known_version") ELSE s
        s2 == [s1 EXCEPT
                  !.cell_to_version = DictSet(@, cellInfo, pipeline.version),
                  !.version_to_pipeline = DictSet(@, pipeline.version, pipeline),
                  !.cell_to_pipeline = DictSet(@, cellInfo, pipeline)]
    IN IF known /\ PipelineEq(s.varobjs,
                              s.version_to_pipeline[pipeline.version], pipeline)
       THEN s
       ELSE WriteAnnotations(s2, pipeline)

\* VistrailData.get_pipeline(param) for a version (an int)
get_pipeline_version(s, version) ==
    IF version \in DOMAIN s.version_to_pipeline
    THEN Some(s.version_to_pipeline[version]) ELSE NoneVal
\* VistrailData.get_pipeline(param) for a cell
get_pipeline_cell(s, cellInfo) ==
    IF cellInfo \in DOMAIN s.cell_to_pipeline
    THEN Some(s.cell_to_pipeline[cellInfo]) ELSE NoneVal

\* -------------------------------------------------- VistrailData.__init__
DatVarsTag == <<"d", "a", "t", "-", "v", "a", "r", "s">>
DatVarPrefix == <<"d", "a", "t", "-", "v", "a", "r", "-">>
\* tag.startswith('dat-var-')
StartsWith(text, prefix) ==
    Len(text) >= Len(prefix) /\ SubSeq(text, 1, Len(prefix)) = prefix

RECURSIVE LoadVariables(_, _, _)
\* the loop over tagmap.iteritems()
LoadVariables(s, tm, order) ==
    IF order = <<>> THEN s
    ELSE LET tag == Head(order)
             varname == SubSeq(tag, Len(DatVarPrefix) + 1, Len(tag))
             variable == NewObj(s)
             s1 == [s EXCEPT !.varobjs[variable] = varname,
                             !.variables = DictSet(@, varname, variable)]
         IN IF ~StartsWith(tag, DatVarPrefix)
            THEN LoadVariables(s, tm, Tail(order))
            ELSE IF ~tm[tag]
            THEN LoadVariables(Warn(s, "invalid_variable_pipeline"), tm,
                               Tail(order))
            ELSE LoadVariables(add_variable(s1, varname, NoneVal), tm,
                               Tail(order))

RECURSIVE LoadRecipes(_, _)
\* first loop over the annotations: the recipes
LoadRecipes(s, order) ==
    IF order = <<>> THEN s
    ELSE LET an == Head(order)
             recipe == read_annotation_recipe(s.variables, s.annotations[an])
         IN IF an[2] = RecipeKey /\ recipe.some
            THEN LoadRecipes(
                     [s EXCEPT !.version_to_pipeline =
                         DictSet(@, an[1],
                             PipelineInformation(an[1], recipe.val,
                                                 NoneVal, NoneVal))],
                     Tail(order))
            ELSE LoadRecipes(s, Tail(order))

\* 'if not pipeline': a PipelineInformation object is never false
Falsy(pipeline) == FALSE

RECURSIVE LoadPortmaps(_, _)
\* second loop over the annotations: the port maps
LoadPortmaps(s, order) ==
    IF order = <<>> THEN s
    ELSE LET an == Head(order)
             port_map == read_annotation_portmap(s.annotations[an])
         IN IF an[2] # PortmapKey THEN LoadPortmaps(s, Tail(order))
            ELSE IF an[1] \notin DOMAIN s.version_to_pipeline
            THEN Raise(s, "KeyError")
            ELSE IF Falsy(s.version_to_pipeline[an[1]])
            THEN LoadPortmaps(
                     set_action_annotation(
                         Warn(s, "port_map_without_recipe"),
                         an[1], an[2], NoneVal),
                     Tail(order))
            ELSE IF port_map.some
            THEN LoadPortmaps(
                     [s EXCEPT !.version_to_pipeline[an[1]].port_map =
                                   Some(port_map.val)],
                     Tail(order))
            ELSE LoadPortmaps(s, Tail(order))

RECURSIVE LoadVarmaps(_, _)
\* third loop over the annotations: the variable maps, stored in the
\* attribute varmap
LoadVarmaps(s, order) ==
    IF order = <<>> THEN s
    ELSE LET an == Head(order)
             var_map == read_annotation_varmap(s.annotations[an])
         IN IF an[2] # VarmapKey THEN LoadVarmaps(s, Tail(order))
            ELSE IF an[1] \notin DOMAIN s.version_to_pipeline
            THEN Raise(s, "KeyError")
            ELSE IF Falsy(s.version_to_pipeline[an[1]])
            THEN LoadVarmaps(
                     set_action_annotation(
                         Warn(s, "var_map_without_recipe"),
                         an[1], an[2], NoneVal),
                     Tail(order))
            ELSE IF var_map.some
            THEN LoadVarmaps(
                     [s EXCEPT !.version_to_pipeline[an[1]].varmap =
                                   Some(var_map.val)],
                     Tail(order))
            ELSE LoadVarmaps(s, Tail(order))

\* VistrailData.__init__(controller)
VistrailData(s, tm) ==
    LET order == KeyOrder(DOMAIN s.annotations)
        s1 == IF DatVarsTag \in DOMAIN tm
              THEN LoadVariables(s, tm, KeyOrder(DOMAIN tm)) ELSE s
        s2 == LoadRecipes(s1, order)
        s3 == LoadPortmaps(s2, order)
    IN IF s3.raised # "None" THEN s3 ELSE LoadVarmaps(s3, order)

\* ------------------------------------------------------------- the inputs
\* The port map and the variable map of the pipeline a caller builds for a
\* recipe: one port and one connection for each bound parameter.
PortMapOf(recipe) == [k \in DOMAIN recipe.variables |-> <<<<1, PortI>>>>]
VarMapOf(recipe) == [k \in DOMAIN recipe.variables |-> <<1>>]

\* The recipes a caller builds from the registered variables.
RecipesOf(s) ==
    LET registered == {s.variables[n] : n \in DOMAIN s.variables}
    IN {DATRecipe(plot, f) :
            plot \in Plots,
            f \in UNION {[D -> registered] : D \in SUBSET Params}}

RecipeText_a == <<"p", ";", "x", "=", "a">>
PortsText == <<"x", "=", "1", ":", "i">>
VarsText == <<"x", "=", "1">>
Tags_a == [t \in {DatVarsTag, DatVarPrefix \o a} |-> TRUE]

\* The vistrails the store is opened on: a new one; one saved with a recipe
\* over variable a; the same without the tags of its variables; one whose
\* recipe names a plot that is not known; one with a lone port map.
InitialDocs ==
    {[annotations |-> EmptyDict, tagmap |-> EmptyDict],
     [annotations |-> [k \in {<<1, RecipeKey>>, <<1, PortmapKey>>,
                              <<1, VarmapKey>>} |->
                          IF k[2] = RecipeKey THEN RecipeText_a
                          ELSE IF k[2] = PortmapKey THEN PortsText
                          ELSE VarsText],
      tagmap |-> Tags_a],
     [annotations |-> [k \in {<<1, RecipeKey>>} |-> RecipeText_a],
      tagmap |-> EmptyDict],
     [annotations |-> [k \in {<<1, RecipeKey>>} |-> <<"z", ";", "x", "=", "a">>],
      tagmap |-> Tags_a],
     [annotations |-> [k \in {<<2, PortmapKey>>} |-> PortsText],
      tagmap |-> EmptyDict]}

\* ---------------------------------------------------------------- actions
Init ==
    /\ \E doc \in InitialDocs :
          annotations = doc.annotations /\ tagmap = doc.tagmap
    /\ loaded = FALSE
    /\ variables = EmptyDict
    /\ varobjs = [i \in ObjIds |-> <<>>]
    /\ version_to_pipeline = EmptyDict
    /\ cell_to_version = EmptyDict
    /\ cell_to_pipeline = EmptyDict
    /\ last = [op |-> "none", args |-> [none |-> TRUE], repeated |-> FALSE,
               registered |-> {}, known |-> {}, raised |-> "None",
               warnings |-> <<>>, notifications |-> <<>>]
    /\ codec = CodecIdle
    /\ container = ContainerIdle
    /\ documents = EmptyDict
    /\ ManagerInit

\* The state a call leaves, s being what the operation computed.
Apply(called, op, args) ==
    \E s \in {called} :
    /\ annotations' = s.annotations
    /\ variables' = s.variables
    /\ varobjs' = Collect(s)
    /\ version_to_pipeline' = s.version_to_pipeline
    /\ cell_to_version' = s.cell_to_version
    /\ cell_to_pipeline' = s.cell_to_pipeline
    /\ last' = [op |-> op, args |-> args,
                repeated |-> (last.op = op /\ last.args = args
                              /\ last.raised = "None"),
                registered |-> DOMAIN variables,
                known |-> DOMAIN version_to_pipeline,
                raised |-> s.raised,
                warnings |-> s.warnings, notifications |-> s.notifications,
                seen |-> s.seen]
    /\ UNCHANGED tagmap
    /\ UNCHANGED <<codec, container>>
    /\ UNCHANGED managerVars

\* VistrailManager builds the VistrailData of the vistrail; when __init__
\* raises no VistrailData is kept.
Load ==
    /\ ~loaded
    /\ \E s \in {VistrailData(Cur, tagmap)} :
          IF s.raised = "None"
          THEN loaded' = TRUE /\ Apply(s, "load", [none |-> TRUE])
          ELSE /\ loaded' = FALSE
               /\ Apply([Cur EXCEPT !.annotations = s.annotations,
                                    !.raised = s.raised,
                                    !.warnings = s.warnings,
                                    !.notifications = s.notifications,
                                    !.seen = s.seen],
                        "load", [none |-> TRUE])

NewVariable ==
    /\ loaded
    /\ \E varname \in Names :
          /\ varname \in DOMAIN variables \/ FreeObjs(Cur) # {}
          /\ Apply(new_variable(Cur, varname), "new_variable",
                   [varname |-> varname])
    /\ UNCHANGED loaded

RemoveVariable ==
    /\ loaded
    /\ \E varname \in Names :
          Apply(remove_variable(Cur, varname), "remove_variable",
                [varname |-> varname])
    /\ UNCHANGED loaded

RenameVariable ==
    /\ loaded
    /\ \E old_varname \in Names, new_varname \in Names :
          Apply(rename_variable(Cur, old_varname, new_varname),
                "rename_variable",
                [old_varname |-> old_varname, new_varname |-> new_varname])
    /\ UNCHANGED loaded

CreatedPipeline ==
    /\ loaded
    /\ \E cellInfo \in Cells, version \in Versions,
          recipe \in RecipesOf(Cur) :
          LET pipeline == PipelineInformation(version, recipe,
                              Some(PortMapOf(recipe)), Some(VarMapOf(recipe)))
          IN Apply(created_pipeline(Cur, cellInfo, pipeline),
                   "created_pipeline",
                   [cellInfo |-> cellInfo, pipeline |-> pipeline])
    /\ UNCHANGED loaded

Next ==
    \/ Load
    \/ NewVariable
    \/ RemoveVariable
    \/ RenameVariable
    \/ CreatedPipeline

Spec == Init /\ [][Next]_vars

TypeOK ==
    /\ loaded \in BOOLEAN
    /\ DOMAIN variables \subseteq Names
    /\ \A n \in DOMAIN variables : variables[n] \in ObjIds
    /\ DOMAIN version_to_pipeline \subseteq Versions
    /\ DOMAIN cell_to_version \subseteq Cells
    /\ DOMAIN cell_to_version = DOMAIN cell_to_pipeline

\* ----------------------------------------------------------------- claims
\* The variable names a recipe binds some parameter to.
BoundNames(objs, recipe) ==
    {objs[recipe.variables[k]] :
        k \in {j \in DOMAIN recipe.variables : recipe.variables[j] # NoneObj}}

\* The annotation of a version under a key, NoneVal when there is none.
Ann(an, version, key) ==
    IF <<version, key>> \in DOMAIN an THEN Some(an[<<version, key>>])
    ELSE NoneVal

\* The text holds a ';param=name' binding to that variable name.
BindsName(text, name) ==
    LET segs == Split(text, ";")
    IN \E i \in 2..Len(segs) :
          LET parts == Split(segs[i], "=")
          IN Len(parts) = 2 /\ parts[2] = name

\* The three annotations of a version are the encodings of the record.
Encodes(an, objs, version, rec) ==
    LET enc == build_annotation_recipe(objs, rec.recipe)
    IN /\ enc.raised = "None"
       /\ Ann(an, version, RecipeKey) = Some(enc.val)
       /\ Ann(an, version, PortmapKey) =
              (IF rec.port_map.some
               THEN Some(build_annotation_portmap(rec.port_map.val))
               ELSE NoneVal)
       /\ Ann(an, version, VarmapKey) =
              (IF rec.var_map.some
               THEN Some(build_annotation_varmap(rec.var_map.val))
               ELSE NoneVal)

StoreUnchanged ==
    UNCHANGED <<annotations, variables, varobjs, version_to_pipeline,
                cell_to_version, cell_to_pipeline>>

\* C1: after load and after every mutating call that returns, a version has
\* a dat-recipe annotation iff version_to_pipeline holds a record for it, and
\* its three annotations are the encodings of that record's recipe, port_map
\* and var_map.
C1_IndexAgreesWithAnnotations ==
    (loaded /\ last.raised = "None") =>
        \A v \in Versions :
            /\ Ann(annotations, v, RecipeKey).some
                 <=> v \in DOMAIN version_to_pipeline
            /\ v \in DOMAIN version_to_pipeline =>
                 Encodes(annotations, varobjs, v, version_to_pipeline[v])

\* C2: remove_variable(name) of a registered name drops every record whose
\* recipe binds a parameter to a variable named name and clears its three
\* annotations, and leaves every other record and its annotations unchanged.
C2_RemoveDropsReferencingRecords ==
    [][(last'.op = "remove_variable"
        /\ last'.args.varname \in DOMAIN variables) =>
          \A v \in DOMAIN version_to_pipeline :
             IF last'.args.varname
                  \in BoundNames(varobjs, version_to_pipeline[v].recipe)
             THEN /\ v \notin DOMAIN version_to_pipeline'
                  /\ \A key \in Keys : ~Ann(annotations', v, key).some
             ELSE /\ v \in DOMAIN version_to_pipeline'
                  /\ version_to_pipeline'[v] = version_to_pipeline[v]
                  /\ \A key \in Keys :
                        Ann(annotations', v, key) = Ann(annotations, v, key)
      ]_vars

\* C3: after remove_variable(name) returns, every cell_to_version entry that
\* pointed at a dropped version is gone and get_pipeline(cell) is, for every
\* cell, None or a record whose recipe does not reference name.
C3_RemoveLeavesNoCellOnName ==
    [][(last'.op = "remove_variable" /\ last'.raised = "None") =>
          /\ \A c \in DOMAIN cell_to_version :
                (cell_to_version[c] \in DOMAIN version_to_pipeline
                 /\ cell_to_version[c] \notin DOMAIN version_to_pipeline')
                    => c \notin DOMAIN cell_to_version'
          /\ \A c \in Cells :
                LET rec == get_pipeline_cell(Cur', c)
                IN rec.some =>
                     last'.args.varname
                        \notin BoundNames(varobjs', rec.val.recipe)
      ]_vars

\* C4: rename_variable(old, new) with old registered and new free keeps the
\* versions of version_to_pipeline and cell_to_version; every record that
\* referenced old references new afterwards, bound to the variable
\* get_variable(new) returns while get_variable(old) returns None, and its
\* dat-recipe annotation names new and not old.
C4_RenameRewritesRecords ==
    [][(last'.op = "rename_variable"
        /\ last'.args.old_varname \in DOMAIN variables
        /\ last'.args.new_varname \notin DOMAIN variables) =>
          LET old == last'.args.old_varname
              new == last'.args.new_varname
          IN /\ DOMAIN version_to_pipeline' = DOMAIN version_to_pipeline
             /\ cell_to_version' = cell_to_version
             /\ get_variable(Cur', old) = NoneObj
             /\ get_variable(Cur', new) = variables[old]
             /\ \A v \in DOMAIN version_to_pipeline :
                   old \in BoundNames(varobjs, version_to_pipeline[v].recipe)
                   => LET rec == version_to_pipeline'[v]
                          text == Ann(annotations', v, RecipeKey)
                      IN /\ old \notin BoundNames(varobjs', rec.recipe)
                         /\ \E k \in DOMAIN rec.recipe.variables :
                               /\ rec.recipe.variables[k]
                                    = get_variable(Cur', new)
                               /\ varobjs'[rec.recipe.variables[k]] = new
                         /\ text.some
                         /\ BindsName(text.val, new)
                         /\ ~BindsName(text.val, old)
      ]_vars

\* C5: new_variable(name, source) with name already registered raises the
\* naming conflict, builds no Variable, emits no notification and leaves the
\* registry, the index and the annotations unchanged.
C5_RegisterConflictRejected ==
    [][(last'.op = "new_variable"
        /\ last'.args.varname \in DOMAIN variables) =>
          /\ last'.raised = "ValueError"
          /\ last'.notifications = <<>>
          /\ StoreUnchanged
      ]_vars

\* C5 witness: a new_variable call on a registered name has been rejected.
C5_RegisterConflictSeen ==
    /\ last.op = "new_variable"
    /\ last.args.varname \in last.registered
    /\ last.raised = "ValueError"
    /\ version_to_pipeline # EmptyDict

\* C6: rename_variable(old, new) is rejected when old is not registered and
\* when new is already registered; in the second case both names keep the
\* variables they were registered with.
C6_RenameRejectsConflicts ==
    [][last'.op = "rename_variable" =>
          LET old == last'.args.old_varname
              new == last'.args.new_varname
          IN /\ old \notin DOMAIN variables => last'.raised # "None"
             /\ (old \in DOMAIN variables /\ new \in DOMAIN variables
                 /\ old # new) =>
                   /\ last'.raised # "None"
                   /\ get_variable(Cur', new) = variables[new]
                   /\ get_variable(Cur', old) = variables[old]
      ]_vars

\* The record a created_pipeline call was given, and what was stored for
\* its version when the call started.
CallPipeline == last'.args.pipeline
CallKnown == CallPipeline.version \in DOMAIN version_to_pipeline
CallDiffers ==
    ~RecipeEq(varobjs, version_to_pipeline[CallPipeline.version].recipe,
              CallPipeline.recipe)

\* C7: created_pipeline called twice in a row with identical arguments is
\* idempotent: the second call changes neither the index, the cell maps nor
\* the annotations, leaves one record for the version and emits no warning.
C7_CreatedTwiceIdempotent ==
    [][(last'.op = "created_pipeline" /\ last'.repeated) =>
          /\ StoreUnchanged
          /\ last'.raised = "None"
          /\ last'.warnings = <<>>
          /\ CallPipeline.version \in DOMAIN version_to_pipeline'
          /\ PipelineEq(varobjs', version_to_pipeline'[CallPipeline.version],
                        CallPipeline)
      ]_vars

\* C7 witness: the same created_pipeline call has been made twice in a row.
C7_CreatedTwiceSeen ==
    /\ last.op = "created_pipeline"
    /\ last.repeated
    /\ last.args.pipeline.version \in DOMAIN version_to_pipeline

\* C8: created_pipeline for a version known with a different recipe warns,
\* does not fail and replaces the record, so that get_pipeline(version)
\* returns the new recipe and the three annotations hold its encodings; for
\* an unknown version it inserts the record without a warning.
C8_CreatedReplacesKnownVersion ==
    [][(last'.op = "created_pipeline" /\ (~CallKnown \/ CallDiffers)) =>
          /\ last'.raised = "None"
          /\ last'.warnings = IF CallKnown THEN <<"previously_known_version">>
                              ELSE <<>>
          /\ get_pipeline_version(Cur', CallPipeline.version)
                = Some(CallPipeline)
          /\ Encodes(annotations', varobjs', CallPipeline.version, CallPipeline)
      ]_vars

\* C8 witness: a record was replaced by one with a different recipe.
C8_ReplacedSeen ==
    /\ last.op = "created_pipeline"
    /\ last.args.pipeline.version \in last.known
    /\ last.warnings = <<"previously_known_version">>
    /\ version_to_pipeline[last.args.pipeline.version] = last.args.pipeline

\* C9: after every created_pipeline(cell, version, ...) that returns,
\* cell_to_version[cell] = version and get_pipeline(cell) is the record of
\* that version.
C9_CreatedBindsCell ==
    [][(last'.op = "created_pipeline" /\ last'.raised = "None") =>
          /\ last'.args.cellInfo \in DOMAIN cell_to_version'
          /\ cell_to_version'[last'.args.cellInfo] = CallPipeline.version
          /\ get_pipeline_cell(Cur', last'.args.cellInfo)
                = get_pipeline_version(Cur', CallPipeline.version)
      ]_vars

\* The call commits a version that is not known while another version holds
\* an equal recipe.
CallRecipeKnownElsewhere ==
    /\ last'.op = "created_pipeline"
    /\ ~CallKnown
    /\ \E v \in DOMAIN version_to_pipeline :
          RecipeEq(varobjs, version_to_pipeline[v].recipe, CallPipeline.recipe)

RecipeDecodes(an, version) ==
    /\ Ann(an, version, RecipeKey).some
    /\ read_annotation_recipe(EmptyDict, Ann(an, version, RecipeKey).val).some

\* C11: loading the pipeline index never fails, whatever the dat-recipe,
\* dat-ports and dat-vars annotations of the document are: load completes and
\* builds a record for exactly the versions whose dat-recipe decodes.
C11_LoadNeverFails ==
    last.op = "load" =>
        /\ last.raised = "None"
        /\ \A v \in Versions :
              v \in DOMAIN version_to_pipeline <=> RecipeDecodes(annotations, v)

\* C12: load removes from the document every dat-ports and dat-vars
\* annotation of a version without a record and warns about it, so that no
\* such annotation remains after load.
C12_LoadPurgesOrphanMaps ==
    [][last'.op = "load" =>
          \A v \in Versions, key \in {PortmapKey, VarmapKey} :
             (Ann(annotations, v, key).some /\ ~RecipeDecodes(annotations, v))
                => /\ ~Ann(annotations', v, key).some
                   /\ last'.warnings # <<>>
      ]_vars

\* C13: after load every version whose dat-recipe decodes has one record,
\* with that version and the decoded recipe, whose port_map and var_map are
\* the decoded dat-ports and dat-vars annotations of the version.
C13_LoadedRecordHoldsThreeAnnotations ==
    (loaded /\ last.op = "load") =>
        \A v \in Versions :
            RecipeDecodes(annotations, v) =>
               /\ v \in DOMAIN version_to_pipeline
               /\ version_to_pipeline[v].version = v
               /\ Some(version_to_pipeline[v].recipe) =
                     read_annotation_recipe(variables,
                                            annotations[<<v, RecipeKey>>])
               /\ Ann(annotations, v, PortmapKey).some =>
                     version_to_pipeline[v].port_map =
                        read_annotation_portmap(annotations[<<v, PortmapKey>>])
               /\ Ann(annotations, v, VarmapKey).some =>
                     version_to_pipeline[v].var_map =
                        read_annotation_varmap(annotations[<<v, VarmapKey>>])

\* ------------------------------------------------- the codec on its own
\* The texts handed to the decoders: every text over the separators, a
\* sign, a digit and the letters of a plot, a parameter and a variable, up
\* to MaxTextLen characters, and some longer annotation values.
MaxTextLen == 4
CodecAlphabet == {"p", "x", "a", ";", "=", ",", ":", "1", "-"}

RECURSIVE TextsUpTo(_)
TextsUpTo(n) ==
    IF n = 0 THEN {<<>>}
    ELSE LET shorter == TextsUpTo(n - 1)
         IN shorter \cup {Append(t, c) : t \in shorter, c \in CodecAlphabet}

SampleTexts ==
    {<<"p", ";", "x", "=", "a", ";", "y", "=", "b">>,
     <<"p", ";", "x", "=", "a", ";", "y", "=", "c">>,
     <<"p", ";", "x", "=", "a", ";", "y">>,
     <<"p", ";", "x", "=", "a", "=", "b">>,
     <<"q", ";", "x", "=", "a">>,
     <<"x", "=", "1", ":", "i", ",", "2", ":", "o", ";", "y", "=">>,
     <<"x", "=", "1", ":", "i", ",", "2">>,
     <<"x", "=", "1", ":", "i", ",", "o", ":", "2">>,
     <<"x", "=", "1", ":", "i", ",", "2", ":", "o", ":", "u">>,
     <<"x", "=", "1", "2", ",", "3", ";", "y", "=", "-", "4">>,
     <<"x", "=", "1", ",", "b">>,
     <<"x", "=", "1", ",", "2", ";", "y">>}

CodecTexts == TextsUpTo(MaxTextLen) \cup SampleTexts

\* The registry the recipe decoder looks names up in: variables a and b.
CodecRegistry == [n \in Names |-> IF n = a THEN 1 ELSE 2]
CodecObjs == [i \in ObjIds |-> IF i = 1 THEN a ELSE IF i = 2 THEN b ELSE <<>>]

\* The recipes, port maps and variable maps handed to the encoders:
\* parameter names without separator (the empty name included), lists with
\* no, one and two elements.
CodecParams == {<<>>, <<"x">>, <<"y">>}
CodecRecipes ==
    {DATRecipe(plot, f) :
        plot \in Plots,
        f \in UNION {[D -> {CodecRegistry[n] : n \in Names}] :
                        D \in SUBSET CodecParams}}
CodecPortLists ==
    {<<>>, <<<<1, PortI>>>>, <<<<1, PortI>>, <<12, <<"o", "u">>>>>>,
     <<<<-3, <<>>>>>>}
CodecPortMaps ==
    UNION {[D -> CodecPortLists] : D \in SUBSET (CodecParams \ {<<>>})}
CodecConnLists == {<<>>, <<1>>, <<1, 12>>, <<-3>>, <<0>>}
CodecVarMaps ==
    UNION {[D -> CodecConnLists] : D \in SUBSET (CodecParams \ {<<>>})}

CodecInput(kind, input) ==
    [kind |-> kind, input |-> input, encoded |-> NoneVal, op |-> "none",
     raised |-> "None", result |-> NoneVal]

CodecInit ==
    /\ codec \in {CodecInput("text", t) : t \in CodecTexts}
            \cup {CodecInput("recipe", r) : r \in CodecRecipes}
            \cup {CodecInput("port_map", m) : m \in CodecPortMaps}
            \cup {CodecInput("var_map", m) : m \in CodecVarMaps}
    /\ variables = CodecRegistry
    /\ varobjs = CodecObjs
    /\ annotations = EmptyDict /\ tagmap = EmptyDict
    /\ loaded = FALSE
    /\ version_to_pipeline = EmptyDict
    /\ cell_to_version = EmptyDict
    /\ cell_to_pipeline = EmptyDict
    /\ last = [op |-> "none", args |-> [none |-> TRUE], repeated |-> FALSE,
               registered |-> {}, known |-> {}, raised |-> "None",
               warnings |-> <<>>, notifications |-> <<>>]
    /\ documents = EmptyDict
    /\ ManagerInit
    /\ container = ContainerIdle

\* The text a decoder is applied to: a text of CodecTexts, or what the
\* encoder made of a value of the decoder's kind.
DecoderText(kind) ==
    IF codec.kind = "text" THEN Some(codec.input)
    ELSE IF codec.kind = kind THEN codec.encoded
    ELSE NoneVal

CodecFrame == UNCHANGED <<storeVars, last, managerVars, container>>

EncodeRecipe ==
    /\ codec.kind = "recipe" /\ ~codec.encoded.some /\ codec.op = "none"
    /\ LET enc == build_annotation_recipe(varobjs, codec.input)
       IN codec' = IF enc.raised = "None"
                   THEN [codec EXCEPT !.encoded = Some(enc.val)]
                   ELSE [codec EXCEPT !.op = "build_annotation_recipe",
                                      !.raised = enc.raised]
    /\ CodecFrame

EncodePortmap ==
    /\ codec.kind = "port_map" /\ ~codec.encoded.some
    /\ codec' = [codec EXCEPT
                    !.encoded = Some(build_annotation_portmap(codec.input))]
    /\ CodecFrame

EncodeVarmap ==
    /\ codec.kind = "var_map" /\ ~codec.encoded.some
    /\ codec' = [codec EXCEPT
                    !.encoded = Some(build_annotation_varmap(codec.input))]
    /\ CodecFrame

DecodeRecipe ==
    /\ codec.op = "none" /\ DecoderText("recipe").some
    /\ LET r == ReadRecipeCall(variables, DecoderText("recipe").val)
       IN codec' = [codec EXCEPT !.op = "read_annotation_recipe",
                                 !.raised = r.raised, !.result = r.val]
    /\ CodecFrame

DecodePortmap ==
    /\ codec.op = "none" /\ DecoderText("port_map").some
    /\ codec' = [codec EXCEPT
                    !.op = "read_annotation_portmap",
                    !.result =
                        read_annotation_portmap(DecoderText("port_map").val)]
    /\ CodecFrame

DecodeVarmap ==
    /\ codec.op = "none" /\ DecoderText("var_map").some
    /\ codec' = [codec EXCEPT
                    !.op = "read_annotation_varmap",
                    !.result =
                        read_annotation_varmap(DecoderText("var_map").val)]
    /\ CodecFrame

CodecNext ==
    \/ EncodeRecipe
    \/ EncodePortmap
    \/ EncodeVarmap
    \/ DecodeRecipe
    \/ DecodePortmap
    \/ DecodeVarmap

SpecCodec == CodecInit /\ [][CodecNext]_vars

\* ------------------------------------------------------- codec claims
\* The text the decoder of the call was applied to.
DecodedText ==
    IF codec.kind = "text" THEN codec.input ELSE codec.encoded.val

\* Some ';param=name' segment of the text names a variable that the
\* registry does not hold.
UnresolvedBinding(registry, text) ==
    LET segs == Split(text, ";")
    IN \E i \in 2..Len(segs) :
          LET parts == Split(segs[i], "=")
          IN Len(parts) = 2 /\ parts[2] \notin DOMAIN registry

\* C14: decode_recipe returns None when the right-hand side of a binding
\* names a variable that lookup does not resolve, and no recipe it returns
\* has a parameter bound to an absent variable.
C14_UnresolvedNameYieldsNone ==
    codec.op = "read_annotation_recipe" =>
        /\ UnresolvedBinding(variables, DecodedText) => ~codec.result.some
        /\ codec.result.some =>
              \A k \in DOMAIN codec.result.val.variables :
                 codec.result.val.variables[k] # NoneObj

\* The segment holds no '=' separator.
NoAssign(seg) == \A j \in 1..Len(seg) : seg[j] # "="

\* C15: decode_recipe returns None when the first segment of the text is
\* not a known template id and when a later segment contains no '='
\* separator, and no exception escapes it, whatever the text.
C15_DecodeRecipeRejectsMalformed ==
    codec.op = "read_annotation_recipe" =>
        LET segs == Split(DecodedText, ";")
        IN /\ codec.raised = "None"
           /\ segs[1] \notin Plots => codec.result = NoneVal
           /\ (\E i \in 2..Len(segs) : NoAssign(segs[i]))
                 => codec.result = NoneVal

\* C15 witness: the decoder was given a known template id followed by a
\* segment without '=' and returned None.
C15_MalformedSegmentSeen ==
    /\ codec.op = "read_annotation_recipe"
    /\ codec.kind = "text"
    /\ LET segs == Split(codec.input, ";")
       IN /\ segs[1] \in Plots
          /\ \E i \in 2..Len(segs) : NoAssign(segs[i])
    /\ codec.raised = "None"
    /\ codec.result = NoneVal

\* C16: for every recipe whose template id, parameter names and variable
\* names hold no separator, the recipe without bound parameter included,
\* decode_recipe(encode_recipe(r), lookup) equals r when lookup resolves
\* every variable name r binds.
C16_RecipeRoundTrip ==
    (codec.kind = "recipe" /\ codec.op = "read_annotation_recipe") =>
        /\ codec.raised = "None"
        /\ codec.result = Some(codec.input)
        /\ RecipeEq(varobjs, codec.result.val, codec.input)

\* C16 witness: a recipe with two bound parameters came back from its
\* encoding.
C16_RecipeRoundTripSeen ==
    /\ codec.kind = "recipe"
    /\ codec.op = "read_annotation_recipe"
    /\ Cardinality(DOMAIN codec.input.variables) = 2
    /\ codec.encoded.some
    /\ codec.result = Some(codec.input)

\* C17: for every legal port map and variable map x, the map without
\* parameter and the maps with an empty list included, decoding the
\* encoding of x gives x.
C17_MapRoundTrip ==
    (codec.kind \in {"port_map", "var_map"}
     /\ codec.op \in {"read_annotation_portmap", "read_annotation_varmap"})
        => codec.result = Some(codec.input)

\* The list elements of a 'param=list' mapping, none for an empty list.
Elements(mapping) ==
    LET parts == Split(mapping, "=")
    IN IF Len(parts) # 2 \/ parts[2] = <<>> THEN <<>>
       ELSE Split(parts[2], ",")

\* The element is one 'id:port' pair with an integer id.
GoodPort(element) ==
    LET port_ == Split(element, ":")
    IN Len(port_) = 2 /\ IsInt(port_[1])

\* Some list element of the text fails the test.
SomeElement(text, Good(_)) ==
    LET dv == Split(text, ";")
    IN \E i \in 1..Len(dv) :
          \E j \in 1..Len(Elements(dv[i])) : ~Good(Elements(dv[i])[j])

\* The map has, for every mapping of the text, the parameter of the mapping
\* with as many elements as the last mapping of that parameter lists.
Complete(text, map) ==
    LET dv == Split(text, ";")
        param(i) == Split(dv[i], "=")[1]
    IN \A i \in 1..Len(dv) :
          /\ param(i) \in DOMAIN map
          /\ (\A k \in (i + 1)..Len(dv) : param(k) # param(i))
                => Len(map[param(i)]) = Len(Elements(dv[i]))

\* C18: decode_port_map returns None for the whole text as soon as one list
\* element is not exactly one ':'-separated pair or has a module id that is
\* no integer, decode_var_map as soon as one element is no integer; neither
\* returns a map that lacks a mapping or an element of the text.
C18_MapDecodersRejectWholeText ==
    /\ codec.op = "read_annotation_portmap" =>
          /\ SomeElement(DecodedText, GoodPort) => codec.result = NoneVal
          /\ codec.result.some => Complete(DecodedText, codec.result.val)
    /\ codec.op = "read_annotation_varmap" =>
          /\ SomeElement(DecodedText, IsInt) => codec.result = NoneVal
          /\ codec.result.some => Complete(DecodedText, codec.result.val)

\* C18 witness: decode_port_map was given a list whose first element is a
\* pair with an integer id and whose second element is not, and returned
\* None.
C18_BadElementAfterGoodSeen ==
    /\ codec.op = "read_annotation_portmap"
    /\ codec.kind = "text"
    /\ LET dv == Split(codec.input, ";")
       IN \E i \in 1..Len(dv) :
             /\ Len(Elements(dv[i])) >= 2
             /\ GoodPort(Elements(dv[i])[1])
             /\ ~GoodPort(Elements(dv[i])[2])
    /\ codec.result = NoneVal

\* ------------------------------------------------------- VistrailManager
MaxControllers == 2
Controllers == 1..MaxControllers

\* The state a manager call works on, as one record.
ManagerCur ==
    [documents |-> documents, vistrails |-> vistrails, tabs |-> tabs,
     current_controller |-> current_controller,
     raised |-> "None", warnings |-> <<>>, notifications |-> <<>>,
     seen |-> <<>>, result |-> NoneVal]

\* The manager state after VistrailData.__init__ ended in s: the warnings
\* and notifications of the constructor are emitted, and its exception
\* propagates, in the manager call; the object is stored when it returned.
Constructed(m, controller, s) ==
    LET m1 == [m EXCEPT !.documents[controller].annotations = s.annotations,
                        !.warnings = @ \o s.warnings,
                        !.notifications = @ \o s.notifications,
                        !.seen = @ \o s.seen]
    IN IF s.raised # "None" THEN [m1 EXCEPT !.raised = s.raised]
       ELSE [m1 EXCEPT !.vistrails =
                DictSet(@, controller,
                    [variables |-> s.variables, varobjs |-> s.varobjs,
                     version_to_pipeline |-> s.version_to_pipeline,
                     cell_to_version |-> s.cell_to_version,
                     cell_to_pipeline |-> s.cell_to_pipeline,
                     spreadsheet_tab |-> FALSE])]

\* self._vistrails[controller] = VistrailData(controller): the constructor
\* works on the vistrail of the controller.
NewVistrailData(m, controller) ==
    TheOne({Constructed(m, controller, s) :
               s \in {VistrailData(
                          [annotations |-> m.documents[controller].annotations,
                           variables |-> EmptyDict,
                           varobjs |-> [i \in ObjIds |-> <<>>],
                           version_to_pipeline |-> EmptyDict,
                           cell_to_version |-> EmptyDict,
                           cell_to_pipeline |-> EmptyDict,
                           raised |-> "None", warnings |-> <<>>,
                           notifications |-> <<>>, seen |-> <<>>,
                           subscriber |-> NoneVal],
                          m.documents[controller].tagmap)}})

\* send_notification('dat_controller_changed', controller, new=new)
controller_changed(m, controller, new) ==
    [m EXCEPT !.notifications =
                  Append(@, [name |-> "dat_controller_changed",
                             controller |-> controller, new |-> new]),
              !.seen = Append(@, [vistrails |-> m.vistrails,
                                  current_controller |-> m.current_controller])]

\* a switch that tells the handlers before it touches the manager
SwitchController_notifies_first(m, controller) ==
    LET m1 == controller_changed(m, controller,
                                 controller \notin DOMAIN m.vistrails)
        m2 == [m1 EXCEPT !.current_controller = controller]
    IN IF controller \in DOMAIN m2.vistrails THEN m2
       ELSE TheOne({m3 : m3 \in {NewVistrailData(m2, controller)}})

\* the body of set_controller after the test of the current controller
SwitchController(m, controller) ==
    LET m1 == [m EXCEPT !.current_controller = controller]
    IN IF controller \in DOMAIN m1.vistrails
       THEN controller_changed(m1, controller, FALSE)
       ELSE TheOne({IF m2.raised # "None" THEN m2
                    ELSE controller_changed(m2, controller, TRUE) :
                       m2 \in {NewVistrailData(m1, controller)}})

\* a set_controller without the test of the current controller
set_controller_untested(m, controller) == SwitchController(m, controller)

\* VistrailManager.set_controller(controller)
set_controller(m, controller) ==
    IF controller = m.current_controller THEN m
    ELSE SwitchController(m, controller)

\* VistrailManager.__call__(controller=None); VistrailData(None) raises
\* AttributeError at self._controller.vistrail
manager_call(m, controller) ==
    LET c == IF controller = NoneController THEN m.current_controller
             ELSE controller
    IN IF c \in DOMAIN m.vistrails
       THEN [m EXCEPT !.result = Some(m.vistrails[c])]
       ELSE LET m1 == [m EXCEPT !.warnings =
                           Append(@, "unknown_controller_requested")]
            IN IF c = NoneController
               THEN [m1 EXCEPT !.raised = "AttributeError"]
               ELSE TheOne({IF m2.raised # "None" THEN m2
                            ELSE [m2 EXCEPT !.result = Some(m2.vistrails[c])] :
                               m2 \in {NewVistrailData(m1, c)}})

\* the property VistrailData.spreadsheet_tab: builds the tab when there is
\* none and the spreadsheet window exists
get_spreadsheet_tab(m, controller, sh_window) ==
    IF ~m.vistrails[controller].spreadsheet_tab /\ sh_window
    THEN [m EXCEPT !.vistrails[controller].spreadsheet_tab = TRUE,
                   !.tabs = @ \cup {controller}]
    ELSE m

\* VistrailManager.forget_controller(controller); spreadsheet_tab.tabWidget
\* raises AttributeError when the property gives None
forget_controller(m, controller, sh_window) ==
    IF controller \notin DOMAIN m.vistrails THEN m
    ELSE LET m1 == get_spreadsheet_tab(m, controller, sh_window)
         IN IF ~m1.vistrails[controller].spreadsheet_tab
            THEN [m1 EXCEPT !.raised = "AttributeError"]
            ELSE [m1 EXCEPT !.vistrails = DictDel(@, controller)]

\* The vistrails of the controllers the application opens.
ManagerSpecInit ==
    /\ documents \in [Controllers -> InitialDocs]
    /\ ManagerInit
    /\ annotations = EmptyDict /\ tagmap = EmptyDict
    /\ loaded = FALSE
    /\ variables = EmptyDict
    /\ varobjs = [i \in ObjIds |-> <<>>]
    /\ version_to_pipeline = EmptyDict
    /\ cell_to_version = EmptyDict
    /\ cell_to_pipeline = EmptyDict
    /\ last = [op |-> "none", args |-> [none |-> TRUE], repeated |-> FALSE,
               registered |-> {}, known |-> {}, raised |-> "None",
               warnings |-> <<>>, notifications |-> <<>>]
    /\ codec = CodecIdle
    /\ container = ContainerIdle

\* The state a manager call leaves, m being what the call computed; known
\* holds the controllers that had a VistrailData when the call started,
\* result what the call returned (None when it returns nothing).
ManagerApply(called, op, args) ==
    \E m \in {called} :
    /\ documents' = m.documents
    /\ vistrails' = m.vistrails
    /\ tabs' = m.tabs
    /\ current_controller' = m.current_controller
    /\ last' = [op |-> op, args |-> args,
                repeated |-> (last.op = op /\ last.args = args
                              /\ last.raised = "None"),
                registered |-> {}, known |-> DOMAIN vistrails,
                raised |-> m.raised,
                warnings |-> m.warnings, notifications |-> m.notifications,
                seen |-> m.seen, result |-> m.result]
    /\ UNCHANGED <<storeVars, codec, container>>

SetController ==
    \E controller \in Controllers :
       /\ controller \in DOMAIN documents
       /\ ManagerApply(set_controller(ManagerCur, controller),
                       "set_controller", [controller |-> controller])

ManagerCall ==
    \E controller \in Controllers \cup {NoneController} :
       /\ controller \in DOMAIN documents \cup {NoneController}
       /\ ManagerApply(manager_call(ManagerCur, controller), "__call__",
                       [controller |-> controller])

SpreadsheetTab ==
    \E controller \in Controllers, sh_window \in BOOLEAN :
       /\ controller \in DOMAIN vistrails
       /\ ManagerApply(get_spreadsheet_tab(ManagerCur, controller, sh_window),
                       "spreadsheet_tab",
                       [controller |-> controller, sh_window |-> sh_window])

ForgetController ==
    \E controller \in Controllers, sh_window \in BOOLEAN :
       /\ controller \in DOMAIN documents
       /\ ManagerApply(forget_controller(ManagerCur, controller, sh_window),
                       "forget_controller",
                       [controller |-> controller, sh_window |-> sh_window])

ManagerNext ==
    \/ SetController
    \/ ManagerCall
    \/ SpreadsheetTab
    \/ ForgetController

SpecManager == ManagerSpecInit /\ [][ManagerNext]_vars

\* ------------------------------------------------------- manager claims
\* The dat_controller_changed notifications among those of the last call.
Activations(notifications) ==
    SelectSeq(notifications, LAMBDA n : n.name = "dat_controller_changed")

\* The step is set_controller for a controller that has a VistrailData.
ActivatesKnown ==
    /\ last'.op = "set_controller"
    /\ last'.args.controller \in DOMAIN vistrails

\* The step is set_controller for a controller without a VistrailData.
ActivatesUnknown ==
    /\ last'.op = "set_controller"
    /\ last'.args.controller \notin DOMAIN vistrails

\* C19: on_document_activated(doc) for a doc that has an entry is a no-op,
\* whether or not doc is the current document: the entries, the current
\* document and the emitted notifications are unchanged.
C19_ActivateKnownIsNoOp ==
    [][ActivatesKnown =>
          /\ vistrails' = vistrails
          /\ current_controller' = current_controller
          /\ last'.notifications = <<>>
      ]_vars

\* C19 as amended: on_document_activated(doc) for a doc that has an entry
\* keeps every entry; it is a no-op when doc is the current document, and
\* otherwise makes doc current and emits one document_activated notification
\* for doc with is_new false.
C19_ActivateKnownSwitches ==
    [][ActivatesKnown =>
          /\ vistrails' = vistrails
          /\ documents' = documents
          /\ last'.raised = "None"
          /\ last'.warnings = <<>>
          /\ current_controller' = last'.args.controller
          /\ last'.notifications =
                (IF last'.args.controller = current_controller THEN <<>>
                 ELSE <<[name |-> "dat_controller_changed",
                         controller |-> last'.args.controller,
                         new |-> FALSE]>>)
      ]_vars

\* C19 witness: set_controller was called for a controller that had a
\* VistrailData and was not current, and announced it as not new.
C19_SwitchedToKnownSeen ==
    /\ last.op = "set_controller"
    /\ last.args.controller \in last.known
    /\ current_controller = last.args.controller
    /\ last.notifications =
          <<[name |-> "dat_controller_changed",
             controller |-> last.args.controller, new |-> FALSE]>>

\* C20: on_document_activated(doc) for a doc without an entry constructs
\* its pair, makes doc the current document and emits exactly one
\* document_activated notification; in every document_activated
\* notification is_new tells whether the call constructed the pair.
C20_ActivateUnknownConstructs ==
    [][last'.op = "set_controller" =>
          /\ ActivatesUnknown =>
                /\ last'.args.controller \in DOMAIN vistrails'
                /\ current_controller' = last'.args.controller
                /\ Len(Activations(last'.notifications)) = 1
          /\ \A i \in 1..Len(Activations(last'.notifications)) :
                Activations(last'.notifications)[i].new
                   <=> (/\ last'.args.controller \notin DOMAIN vistrails
                        /\ last'.args.controller \in DOMAIN vistrails')
      ]_vars

\* C21: on_document_closed(doc) removes the entry of doc and leaves the
\* entry of every other document, with its registry and its index,
\* unchanged; closing a document that has no entry changes nothing.
C21_ForgetRemovesOnlyThatEntry ==
    [][last'.op = "forget_controller" =>
          /\ last'.args.controller \notin DOMAIN vistrails'
          /\ \A d \in DOMAIN vistrails \ {last'.args.controller} :
                d \in DOMAIN vistrails' /\ vistrails'[d] = vistrails[d]
          /\ last'.args.controller \notin DOMAIN vistrails =>
                /\ UNCHANGED managerVars
                /\ last'.raised = "None"
                /\ last'.notifications = <<>>
      ]_vars

\* The controller a __call__ step asks for: the current one when the
\* argument is omitted.
CallController ==
    IF last'.args.controller = NoneController THEN current_controller
    ELSE last'.args.controller

\* C22: for_document(doc) returns the existing pair of doc when doc has an
\* entry, the pair of the current document when doc is omitted; for a doc
\* without entry it warns, creates the entry and returns it; two successive
\* calls for the same doc return the same pair.  The call without doc
\* while there is no current document is not a case of the claim.
C22_CallReturnsThePair ==
    [][(last'.op = "__call__" /\ CallController # NoneController) =>
          /\ last'.raised = "None"
          /\ CallController \in DOMAIN vistrails =>
                /\ last'.result = Some(vistrails[CallController])
                /\ last'.warnings = <<>>
                /\ vistrails' = vistrails
          /\ CallController \notin DOMAIN vistrails =>
                /\ last'.warnings # <<>>
                /\ CallController \in DOMAIN vistrails'
                /\ last'.result = Some(vistrails'[CallController])
          /\ last'.repeated => last'.result = last.result
      ]_vars

\* ------------------------------------------------- notification claims
\* C23: remove(name) of a registered variable emits exactly one
\* variable_removed notification, with renamed_to = None, and emits it
\* before any state is mutated: during the delivery get(name) still returns
\* the variable and every record is still returned by the lookups by
\* version and by cell; the records are dropped and the registry entry is
\* deleted only afterwards.
C23_RemoveNotifiesBeforeMutating ==
    [][(last'.op = "remove_variable"
        /\ last'.args.varname \in DOMAIN variables) =>
          /\ last'.notifications =
                <<[name |-> "dat_removed_variable",
                   varname |-> last'.args.varname, renamed |-> NoneVal]>>
          /\ Len(last'.seen) = 1
          /\ get_variable(last'.seen[1], last'.args.varname)
                = variables[last'.args.varname]
          /\ \A v \in DOMAIN version_to_pipeline :
                get_pipeline_version(last'.seen[1], v)
                   = Some(version_to_pipeline[v])
          /\ \A c \in Cells :
                get_pipeline_cell(last'.seen[1], c) = get_pipeline_cell(Cur, c)
          /\ last'.seen[1] = Snapshot(Cur)
      ]_vars

\* C23 witness: a removal returned whose notification was delivered while
\* the variable and a record were still there, and both are gone now.
C23_RemovedAfterDeliverySeen ==
    /\ last.op = "remove_variable"
    /\ last.raised = "None"
    /\ Len(last.seen) = 1
    /\ last.args.varname \in DOMAIN last.seen[1].variables
    /\ last.args.varname \notin DOMAIN variables
    /\ \E v \in DOMAIN last.seen[1].version_to_pipeline :
          v \notin DOMAIN version_to_pipeline

\* ------------------------- the registries of the open controllers
\* The VistrailData of a controller, with its vistrail, as the state its
\* methods work on.
DataOf(controller) ==
    [annotations |-> documents[controller].annotations,
     variables |-> vistrails[controller].variables,
     varobjs |-> vistrails[controller].varobjs,
     version_to_pipeline |-> vistrails[controller].version_to_pipeline,
     cell_to_version |-> vistrails[controller].cell_to_version,
     cell_to_pipeline |-> vistrails[controller].cell_to_pipeline,
     raised |-> "None", warnings |-> <<>>, notifications |-> <<>>,
     seen |-> <<>>, subscriber |-> NoneVal]

\* The state a method of the VistrailData of a controller leaves, called
\* being what the method computed.
DataApply(controller, called, op, args) ==
    \E s \in {called} :
    /\ documents' = [documents EXCEPT ![controller].annotations = s.annotations]
    /\ vistrails' =
          [vistrails EXCEPT ![controller] =
              [variables |-> s.variables, varobjs |-> Collect(s),
               version_to_pipeline |-> s.version_to_pipeline,
               cell_to_version |-> s.cell_to_version,
               cell_to_pipeline |-> s.cell_to_pipeline,
               spreadsheet_tab |-> @.spreadsheet_tab]]
    /\ last' = [op |-> op, args |-> args,
                repeated |-> (last.op = op /\ last.args = args
                              /\ last.raised = "None"),
                registered |-> DOMAIN vistrails[controller].variables,
                known |-> DOMAIN vistrails,
                raised |-> s.raised,
                warnings |-> s.warnings, notifications |-> s.notifications,
                seen |-> s.seen, result |-> NoneVal]
    /\ UNCHANGED <<tabs, current_controller, storeVars, codec, container>>

\* VistrailManager()(controller).new_variable(varname, variable)
NewVariableOf ==
    \E controller \in Controllers, varname \in Names :
       /\ controller \in DOMAIN vistrails
       /\ \/ varname \in DOMAIN vistrails[controller].variables
          \/ FreeObjs(DataOf(controller)) # {}
       /\ DataApply(controller, new_variable(DataOf(controller), varname),
                    "new_variable",
                    [controller |-> controller, varname |-> varname])

\* VistrailManager()(controller).remove_variable(varname)
RemoveVariableOf ==
    \E controller \in Controllers, varname \in Names :
       /\ controller \in DOMAIN vistrails
       /\ DataApply(controller, remove_variable(DataOf(controller), varname),
                    "remove_variable",
                    [controller |-> controller, varname |-> varname])

\* VistrailManager()(controller).rename_variable(old_varname, new_varname)
RenameVariableOf ==
    \E controller \in Controllers, old_varname \in Names,
       new_varname \in Names :
       /\ controller \in DOMAIN vistrails
       /\ DataApply(controller,
                    rename_variable(DataOf(controller), old_varname,
                                    new_varname),
                    "rename_variable",
                    [controller |-> controller, old_varname |-> old_varname,
                     new_varname |-> new_varname])

NotifyNext ==
    \/ SetController
    \/ NewVariableOf
    \/ RemoveVariableOf
    \/ RenameVariableOf

\* The controllers are activated and their registries are used.
SpecNotify == ManagerSpecInit /\ [][NotifyNext]_vars

\* The maps of the VistrailData a registry call worked on, as they are now.
EntryNow ==
    LET d == vistrails[last.args.controller]
    IN [variables |-> d.variables,
        version_to_pipeline |-> d.version_to_pipeline,
        cell_to_version |-> d.cell_to_version,
        cell_to_pipeline |-> d.cell_to_pipeline]

\* The maps a handler saw at the delivery of the i-th notification.
EntrySeen(i) ==
    [variables |-> last.seen[i].variables,
     version_to_pipeline |-> last.seen[i].version_to_pipeline,
     cell_to_version |-> last.seen[i].cell_to_version,
     cell_to_pipeline |-> last.seen[i].cell_to_pipeline]

\* What the handlers of dat_new_variable and dat_controller_changed see: the
\* maps already hold the change.
AddedAndActivatedSeeTheChange ==
    \A i \in 1..Len(last.notifications) :
       LET n == last.notifications[i]
       IN /\ n.name = "dat_new_variable" =>
               /\ n.varname \in DOMAIN last.seen[i].variables
               /\ (/\ last.op \in {"new_variable", "rename_variable"}
                   /\ last.raised = "None") => EntrySeen(i) = EntryNow
          /\ n.name = "dat_controller_changed" =>
               /\ n.controller \in DOMAIN last.seen[i].vistrails
               /\ last.seen[i].current_controller = n.controller
               /\ last.seen[i].vistrails = vistrails
               /\ current_controller = n.controller

C25_RenameNotifiesRemovedThenAdded ==
    [][(last'.op = "rename_variable" /\ last'.raised = "None") =>
          LET old == last'.args.old_varname
              new == last'.args.new_varname
          IN /\ last'.notifications =
                   <<[name |-> "dat_removed_variable", varname |-> old,
                      renamed |-> Some(new)],
                     [name |-> "dat_new_variable", varname |-> new,
                      renamed |-> Some(old)]>>
             /\ Len(last'.seen) = 2
             /\ get_variable(last'.seen[1], old) = variables[old]
             /\ get_variable(last'.seen[2], new) = variables[old]
             /\ last'.seen[2].varobjs[variables[old]] = new
             /\ get_variable(last'.seen[2], old) = NoneObj
      ]_vars

\* ------------------------------------------ a handler that removes in turn
\* remove_variable(on) while a handler of dat_removed_variable answers the
\* removal of on with remove_variable(removes)
RemoveVariableSubscribed ==
    /\ loaded
    /\ \E on \in Names, removes \in Names :
          /\ removes # on
          /\ Apply(remove_variable(
                   [Cur EXCEPT !.subscriber =
                                   Some([on |-> on, removes |-> removes])],
                   on),
                   "remove_variable_subscribed",
                   [varname |-> on, removes |-> removes])
    /\ UNCHANGED loaded

ReentrantNext ==
    \/ Load
    \/ NewVariable
    \/ RemoveVariable
    \/ RenameVariable
    \/ CreatedPipeline
    \/ RemoveVariableSubscribed

\* The store used with and without a subscribed handler.
SpecReentrant == Init /\ [][ReentrantNext]_vars

\* C26: a handler of variable_removed for a that calls remove(b), b another
\* registered variable, is safe: both removals complete without error;
\* afterwards neither a nor b is registered, no record referencing a or b
\* is in version_to_pipeline or returned for a cell, the three annotations of
\* every dropped version are cleared, and exactly one variable_removed was
\* emitted for each of a and b.
C26_ReentrantRemovalSafe ==
    [][(/\ last'.op = "remove_variable_subscribed"
        /\ {last'.args.varname, last'.args.removes} \subseteq DOMAIN variables)
       =>
          LET both == {last'.args.varname, last'.args.removes}
          IN /\ last'.raised = "None"
             /\ both \cap DOMAIN variables' = {}
             /\ \A v \in DOMAIN version_to_pipeline :
                   both \cap BoundNames(varobjs, version_to_pipeline[v].recipe)
                         # {}
                   => /\ v \notin DOMAIN version_to_pipeline'
                      /\ \A key \in Keys : ~Ann(annotations', v, key).some
             /\ \A c \in Cells :
                   LET rec == get_pipeline_cell(Cur', c)
                   IN rec.some =>
                        both \cap BoundNames(varobjs', rec.val.recipe) = {}
             /\ last'.notifications =
                   <<[name |-> "dat_removed_variable",
                      varname |-> last'.args.varname, renamed |-> NoneVal],
                     [name |-> "dat_removed_variable",
                      varname |-> last'.args.removes, renamed |-> NoneVal]>>
      ]_vars

\* C27: a record leaves version_to_pipeline only through the cascade of a
\* variable removal: new_variable, rename_variable, created_pipeline and
\* the removal of a variable the record does not reference never delete it;
\* created_pipeline for the same version may replace it.
C27_RecordLeavesOnlyByRemovalCascade ==
    [][\A v \in DOMAIN version_to_pipeline :
          v \notin DOMAIN version_to_pipeline' =>
             /\ last'.op = "remove_variable"
             /\ last'.args.varname
                   \in BoundNames(varobjs, version_to_pipeline[v].recipe)
      ]_vars

\* C27 witness: a rename returned and the records that were there, one of
\* them referencing the renamed variable, are all still there.
C27_RecordKeptByRenameSeen ==
    /\ last.op = "rename_variable"
    /\ last.raised = "None"
    /\ last.known # {}
    /\ last.known \subseteq DOMAIN version_to_pipeline
    /\ \E v \in DOMAIN version_to_pipeline :
          last.args.new_varname
             \in BoundNames(varobjs, version_to_pipeline[v].recipe)

\* ------------------------------------------------------ DATCellContainer
\* The ports of a plot: every plot has a mandatory port x and an optional
\* port y.
PlotPorts(plot) ==
    {[name |-> x, optional |-> FALSE], [name |-> y, optional |-> TRUE]}

\* all(port.optional or self._variables.has_key(port.name)
\*     for port in self._plot.ports)
AllPortsSet(recipe) ==
    \A port \in PlotPorts(recipe.plot) :
       port.optional \/ port.name \in DOMAIN recipe.variables

\* vistrails_interface.create_pipeline and update_pipeline: the pipeline
\* built for the recipe, at the version the vistrail gave it.
BuiltPipeline(version, recipe) ==
    PipelineInformation(version, recipe,
                        Some(PortMapOf(recipe)), Some(VarMapOf(recipe)))

\* DATCellContainer.update_pipeline up to the test of the ports: the store
\* it leaves and the pipeline it holds. update_error is whether
\* vistrails_interface.update_pipeline raises UpdateError.
update_pipeline(s, cellInfo, recipe, version, update_error) ==
    LET pipeline == get_pipeline_cell(s, cellInfo)
        built == BuiltPipeline(version, recipe)
    IN IF ~pipeline.some
       THEN [s |-> created_pipeline(s, cellInfo, built), pipeline |-> built]
       ELSE IF ~RecipeEq(s.varobjs, pipeline.val.recipe, recipe)
       THEN [s |-> created_pipeline(
                      IF update_error THEN Warn(s, "could_not_update") ELSE s,
                      cellInfo, built),
             pipeline |-> built]
       ELSE [s |-> s, pipeline |-> pipeline.val]

\* DATCellContainer.update_pipeline(): the cell holds the recipe; executed
\* is the current_version given to executePipelineWithProgress, if it is
\* called.
UpdatePipeline ==
    /\ loaded
    /\ \E cellInfo \in Cells, recipe \in RecipesOf(Cur),
          version \in Versions, update_error \in BOOLEAN :
          \E r \in {update_pipeline(Cur, cellInfo, recipe, version,
                                    update_error)} :
             /\ annotations' = r.s.annotations
             /\ variables' = r.s.variables
             /\ varobjs' = Collect(r.s)
             /\ version_to_pipeline' = r.s.version_to_pipeline
             /\ cell_to_version' = r.s.cell_to_version
             /\ cell_to_pipeline' = r.s.cell_to_pipeline
             /\ last' = [op |-> "update_pipeline",
                         args |-> [cellInfo |-> cellInfo, recipe |-> recipe,
                                   version |-> version,
                                   update_error |-> update_error],
                         repeated |-> FALSE,
                         registered |-> DOMAIN variables,
                         known |-> DOMAIN version_to_pipeline,
                         raised |-> r.s.raised,
                         warnings |-> r.s.warnings,
                         notifications |-> r.s.notifications,
                         seen |-> r.s.seen,
                         executed |-> IF r.s.raised = "None"
                                         /\ AllPortsSet(recipe)
                                      THEN Some(r.pipeline.version)
                                      ELSE NoneVal]
    /\ UNCHANGED <<loaded, tagmap, codec, container, managerVars>>

CellNext ==
    \/ Load
    \/ NewVariable
    \/ RemoveVariable
    \/ RenameVariable
    \/ UpdatePipeline

\* The store used by the cell containers of the spreadsheet.
SpecCell == Init /\ [][CellNext]_vars

\* C28: update_pipeline starts the execution of a version only after the
\* store holds a record for it: whenever executePipelineWithProgress is
\* called with current_version = v, get_pipeline(v) returns a record whose
\* recipe equals the recipe of the cell.
C28_ExecutesOnlyCommittedVersion ==
    (last.op = "update_pipeline" /\ last.executed.some) =>
       LET rec == get_pipeline_version(Cur, last.executed.val)
       IN /\ rec.some
          /\ RecipeEq(varobjs, rec.val.recipe, last.args.recipe)

\* ------------------------------------------------------ behaviour claims
\* C31: remove_variable(name) with name not registered, and
\* rename_variable(old, new) with old not registered, fail without side
\* effect: no notification is emitted, and the registry, version_to_pipeline,
\* the cell maps and the annotations are as before the call.
C31_UnknownNameFailsWithoutEffect ==
    [][(\/ /\ last'.op = "remove_variable"
           /\ last'.args.varname \notin DOMAIN variables
        \/ /\ last'.op = "rename_variable"
           /\ last'.args.old_varname \notin DOMAIN variables) =>
          /\ last'.raised # "None"
          /\ last'.notifications = <<>>
          /\ variables' = variables
          /\ version_to_pipeline' = version_to_pipeline
          /\ cell_to_version' = cell_to_version
          /\ cell_to_pipeline' = cell_to_pipeline
          /\ annotations' = annotations
      ]_vars

\* C32: in every reachable state cell_to_version and cell_to_pipeline have
\* the same keys, and for every cell c with a cell_to_version entry
\* get_pipeline(c) returns the record get_pipeline(cell_to_version[c])
\* returns: no cell points at a record that version_to_pipeline no longer
\* holds or has replaced.
C32_CellMapsAgreeWithIndex ==
    /\ DOMAIN cell_to_pipeline = DOMAIN cell_to_version
    /\ \A c \in DOMAIN cell_to_version :
          /\ get_pipeline_version(Cur, cell_to_version[c]).some
          /\ get_pipeline_cell(Cur, c)
                = get_pipeline_version(Cur, cell_to_version[c])

\* C33: in every state reachable by load, new_variable, remove_variable,
\* rename_variable and created_pipeline with recipes built from registered
\* variables, every variable bound in the recipe of a stored record is not
\* None and is the variable the registry returns for its name: no stored
\* record references a name the registry does not hold.
C33_RecordsReferenceRegisteredVariables ==
    \A v \in DOMAIN version_to_pipeline :
       \A k \in DOMAIN version_to_pipeline[v].recipe.variables :
          LET variable == version_to_pipeline[v].recipe.variables[k]
          IN /\ variable # NoneObj
             /\ varobjs[variable] \in DOMAIN variables
             /\ get_variable(Cur, varobjs[variable]) = variable

\* C34: whenever there is a current controller it has an entry in the
\* manager; and after forget_controller(d) for the current controller d, a
\* following set_controller(d) builds a VistrailData for d and emits
\* dat_controller_changed(d, new = True).
C34_CurrentControllerHasEntry ==
    [][/\ current_controller' # NoneController =>
             current_controller' \in DOMAIN vistrails'
       /\ (/\ last.op = "forget_controller"
           /\ last.raised = "None"
           /\ last.args.controller = current_controller
           /\ last'.op = "set_controller"
           /\ last'.args.controller = last.args.controller) =>
             /\ last'.args.controller \in DOMAIN vistrails'
             /\ last'.notifications =
                   <<[name |-> "dat_controller_changed",
                      controller |-> last'.args.controller, new |-> TRUE]>>
      ]_vars

\* ------------------------------------- DATCellContainer and its variables
\* The cell of the container.
ContainerCell == 1
\* The versions the vistrail gives the pipelines built for the container.
MaxContainerVersion == 1
ContainerVersions == 1..MaxContainerVersion
\* A Variable object of another vistrail, held by a container of another
\* controller.
ForeignObj == MaxVarObjs + 1
\* The Variable objects of this vistrail the container holds.
ContainerObjs(c) ==
    {c.variables[k] : k \in DOMAIN c.variables} \ {NoneObj, ForeignObj}

\* DATCellContainer._variable_removed(controller, varname, renamed_to) for a
\* notification of the VistrailData; objs gives the name of the Variable
\* objects at the delivery. variable.name raises AttributeError on None.
variable_removed(c, objs, varname, renamed_to) ==
    LET order == KeyOrder(DOMAIN c.variables)
        found == AnyNamed(objs, c.variables, order, varname)
        to_remove == {k \in DOMAIN c.variables :
                         /\ c.variables[k] # NoneObj
                         /\ objs[c.variables[k]] = varname}
        c1 == [c EXCEPT !.op = "_variable_removed", !.raised = "None"]
    IN IF ~c.own \/ ~c.plot.some THEN c1
       ELSE IF found = "raise" THEN [c1 EXCEPT !.raised = "AttributeError"]
       ELSE IF found = "no" \/ renamed_to.some THEN c1
       ELSE IF c.widget
       THEN [c1 EXCEPT !.plot = NoneVal, !.variables = EmptyDict]
       ELSE IF \E k \in DOMAIN c.variables : c.variables[k] = NoneObj
       THEN [c1 EXCEPT !.raised = "AttributeError"]
       ELSE [c1 EXCEPT !.variables =
                          [k \in DOMAIN @ \ to_remove |-> @[k]]]

\* The names of the ports of a plot.
PortNames(plot) == {port.name : port \in PlotPorts(plot)}

\* What get_pipeline gives a container of another controller: nothing, or a
\* pipeline of the other vistrail, of which the container takes the recipe.
ForeignRecipes ==
    {NoneVal} \cup
    {Some(DATRecipe(plot, f)) :
        plot \in Plots,
        f \in UNION {[D -> {ForeignObj}] : D \in SUBSET PortNames(p)}}

\* DATCellContainer.contentsUpdated(): found is the pipeline get_pipeline
\* returned, as a recipe or None.
contentsUpdated(c, found) ==
    IF found.some
    THEN [c EXCEPT !.plot = Some(found.val.plot),
                   !.variables = found.val.variables]
    ELSE [c EXCEPT !.plot = NoneVal, !.variables = EmptyDict]

\* The recipe of the pipeline get_pipeline(param) returns, or None.
RecipeFound(pipeline) ==
    IF pipeline.some THEN Some(pipeline.val.recipe) ELSE NoneVal

\* The state a handler of the container leaves: called is the VistrailData
\* and c the container. A Variable object the container holds is not
\* released.
ContainerApply(called, c, op, args) ==
    \E s \in {called} :
    /\ annotations' = s.annotations
    /\ variables' = s.variables
    /\ varobjs' = [i \in ObjIds |->
                     IF i \in LiveObjs(s) \cup ContainerObjs(c)
                     THEN s.varobjs[i] ELSE <<>>]
    /\ version_to_pipeline' = s.version_to_pipeline
    /\ cell_to_version' = s.cell_to_version
    /\ cell_to_pipeline' = s.cell_to_pipeline
    /\ container' = c
    /\ last' = [op |-> op, args |-> args, raised |-> s.raised]
    /\ UNCHANGED <<loaded, tagmap, codec, managerVars>>

\* self.update_pipeline() at the end of a handler of the container: a
\* container of this controller commits to the VistrailData; an exception
\* escapes the handler.
ContainerCommits(c, op, version, update_error) ==
    IF ~c.own
    THEN ContainerApply(Cur, [c EXCEPT !.op = op, !.raised = "None"], op,
                        [none |-> TRUE])
    ELSE \E r \in {update_pipeline(Cur, ContainerCell,
                                   DATRecipe(c.plot.val, c.variables),
                                   version, update_error)} :
            ContainerApply(r.s, [c EXCEPT !.op = op, !.raised = r.s.raised],
                           op, [none |-> TRUE])

\* VistrailData.new_variable while the container exists
ContainerNewVariable ==
    /\ loaded
    /\ \E varname \in Names :
          /\ \/ varname \in DOMAIN variables
             \/ /\ FreeObjs(Cur) # {}
                /\ NewObj(Cur) \notin ContainerObjs(container)
          /\ ContainerApply(new_variable(Cur, varname), container,
                            "new_variable", [varname |-> varname])

\* The VistrailData after a call whose dat_removed_variable notification
\* the container handled: an exception of the handler either reaches the
\* sender, which has changed nothing yet, or is kept by the dispatcher.
Heard(c, called, varname, renamed, propagates) ==
    IF c.raised # "None" /\ propagates
    THEN Raise(send_notification(Cur, "dat_removed_variable", varname,
                                 renamed),
               c.raised)
    ELSE called

\* VistrailData.remove_variable(varname), the container handling the
\* notification
RemoveVariableHeard ==
    /\ loaded
    /\ \E varname \in Names, propagates \in BOOLEAN :
          \E c \in {variable_removed(container, varobjs, varname, NoneVal)} :
             /\ propagates => c.raised # "None"
             /\ ContainerApply(
                   Heard(c, remove_variable(Cur, varname), varname, NoneVal,
                         propagates),
                   c, "remove_variable", [varname |-> varname])

\* VistrailData.rename_variable(old_varname, new_varname), the container
\* handling the notification
RenameVariableHeard ==
    /\ loaded
    /\ \E old_varname \in Names, new_varname \in Names,
          propagates \in BOOLEAN :
          \E c \in {variable_removed(container, varobjs, old_varname,
                                     Some(new_varname))} :
             /\ propagates => c.raised # "None"
             /\ ContainerApply(
                   Heard(c, rename_variable(Cur, old_varname, new_varname),
                         old_varname, Some(new_varname), propagates),
                   c, "rename_variable",
                   [old_varname |-> old_varname,
                    new_varname |-> new_varname])

\* DATCellContainer.dropEvent with a plot
DropPlot ==
    /\ loaded
    /\ \E plot \in Plots, version \in ContainerVersions,
          update_error \in BOOLEAN :
          ContainerCommits([container EXCEPT !.plot = Some(plot),
                                             !.variables = EmptyDict],
                           "dropEvent", version, update_error)

\* DATCellContainer.dropEvent with a variable, over a port of the plot
DropVariable ==
    /\ loaded
    /\ container.plot.some
    /\ \E port_name \in PortNames(container.plot.val),
          variable \in IF container.own
                       THEN {get_variable(Cur, n) : n \in DOMAIN variables}
                       ELSE {ForeignObj},
          version \in ContainerVersions, update_error \in BOOLEAN :
          ContainerCommits([container EXCEPT
                               !.variables = DictSet(@, port_name, variable)],
                           "dropEvent", version, update_error)

\* DATCellContainer.remove_parameter(port_name), from the overlay of a
\* bound parameter
RemoveParameter ==
    /\ loaded
    /\ container.plot.some
    /\ \E port_name \in DOMAIN container.variables,
          version \in ContainerVersions, update_error \in BOOLEAN :
          ContainerCommits([container EXCEPT
                               !.variables = DictDel(@, port_name)],
                           "remove_parameter", version, update_error)

\* DATCellContainer.setWidget(widget): the spreadsheet puts or removes a
\* visualization; version is the one the spreadsheet shows in the cell.
SetWidget ==
    /\ loaded
    /\ \E widget \in BOOLEAN, version \in ContainerVersions,
          foreign \in ForeignRecipes :
          LET c == [container EXCEPT !.widget = widget, !.op = "setWidget",
                                     !.raised = "None"]
              found == IF ~c.own THEN foreign
                       ELSE RecipeFound(get_pipeline_version(Cur, version))
          IN /\ c.own => foreign = NoneVal
             /\ ContainerApply(Cur,
                               IF widget THEN contentsUpdated(c, found) ELSE c,
                               "setWidget", [widget |-> widget])

ContainerNext ==
    \/ Load
    \/ ContainerNewVariable
    \/ RemoveVariableHeard
    \/ RenameVariableHeard
    \/ DropPlot
    \/ DropVariable
    \/ RemoveParameter
    \/ SetWidget

\* A cell container of this or of another controller is created with the
\* spreadsheet.
ContainerInit ==
    /\ \E doc \in InitialDocs :
          annotations = doc.annotations /\ tagmap = doc.tagmap
    /\ loaded = FALSE
    /\ variables = EmptyDict
    /\ varobjs = [i \in ObjIds |-> <<>>]
    /\ version_to_pipeline = EmptyDict
    /\ cell_to_version = EmptyDict
    /\ cell_to_pipeline = EmptyDict
    /\ last = [op |-> "none", args |-> [none |-> TRUE], repeated |-> FALSE,
               registered |-> {}, known |-> {}, raised |-> "None",
               warnings |-> <<>>, notifications |-> <<>>]
    /\ codec = CodecIdle
    /\ documents = EmptyDict
    /\ ManagerInit
    /\ container \in {NewContainer(TRUE), NewContainer(FALSE)}

\* The store with one cell container listening to it.
SpecContainer == ContainerInit /\ [][ContainerNext]_vars

\* The parameters the container binds to a variable named name.
BoundTo(c, objs, name) ==
    {k \in DOMAIN c.variables :
        /\ c.variables[k] # NoneObj
        /\ objs[c.variables[k]] = name}

\* C35: a cell container that receives dat_removed_variable(controller,
\* name, renamed_to = None) for its own controller holds afterwards no
\* parameter bound to a variable named name: its plot and all its bindings
\* are cleared when it shows a result widget, only the bindings to name are
\* deleted otherwise. A notification for another controller, or one with
\* renamed_to set, leaves the plot and the bindings of the container
\* unchanged.
C35_ContainerDropsRemovedVariable ==
    [][/\ (last'.op = "remove_variable" /\ container.own) =>
             LET name == last'.args.varname
                 bound == BoundTo(container, varobjs, name)
             IN /\ BoundTo(container', varobjs, name) = {}
                /\ (bound # {} /\ container.widget) =>
                      /\ container'.plot = NoneVal
                      /\ container'.variables = EmptyDict
                /\ (bound # {} /\ ~container.widget) =>
                      /\ container'.plot = container.plot
                      /\ container'.variables =
                            [k \in DOMAIN container.variables \ bound |->
                                container.variables[k]]
       /\ (\/ last'.op = "remove_variable" /\ ~container.own
           \/ last'.op = "rename_variable") =>
             /\ container'.plot = container.plot
             /\ container'.variables = container.variables
      ]_vars

====
